---- MODULE Spec2Model ----
(***************************************************************************)
(* StellarRoute router contract (crates/contracts): the swap engine with   *)
(* its MEV guards (commit-reveal, rate limiting, impact / spread /         *)
(* slippage bounds, reserve-manipulation detection) as a state machine.    *)
(*                                                                         *)
(* Every entry point runs to completion as one atomic step.  A call that   *)
(* returns Err is discarded by the Soroban host together with all writes   *)
(* and events it made (Invoke).  Pool adapters and the token contract are  *)
(* external contracts: their replies are inputs of the step.               *)
(***************************************************************************)
EXTENDS Integers, Sequences, FiniteSets, TLC

\* ------------------------------------------------------------------ bounds

MaxTick == 4        \* ledger sequence numbers 0..MaxTick are explored
MaxEvents == 4      \* the event log is explored up to this length
MaxProposals == 2   \* proposal ids 1..MaxProposals are explored

\* --------------------------------------------------------------- constants

MaxHops == 4        \* route.hops.len() > 4 is rejected
ImpactPerHop == 5   \* total_impact_bps += 5
BpsDenom == 10000   \* basis-point denominator of fee and spread
QuoteValidity == 120
MaxFeeRate == 1000

\* ----------------------------------------------------------------- actors

Alice == "alice"
Bob == "bob"
Carol == "carol"          \* a recipient
Treasury == "treasury"    \* fee_to
Admin == "admin"
Router == "router"        \* e.current_contract_address()
Pool1 == "pool1"          \* a pool contract the admin registers
Pool2 == "pool2"          \* a pool contract that is never registered
Senders == {Alice, Bob}
Holders == {Alice, Bob, Carol, Treasury, Router, Pool1, Pool2}

\* Asset: Soroban(address) moves through the token contract; Native and
\* Issued assets are not moved by transfer_asset.
TOK == "TOK"              \* Asset::Soroban(token contract)
XLM == "XLM"              \* Asset::Native
\* types::TokenCategory, and the fields of a TokenInfo that the contract
\* reads (name, code, decimals, issuer_verified, added_at and added_by are
\* stored and returned, never examined).
TokenCategory == {"Native", "Stablecoin", "Wrapped", "Ecosystem", "Community"}
TokenInfo(asset, category) == [asset |-> asset, category |-> category]

IsSoroban(asset) == asset = TOK

\* Option<T>: <<>> is None, <<v>> is Some(v).
None == <<>>
Some(v) == <<v>>

\* Rust integer division truncates toward zero (b > 0 here).
TruncDiv(a, b) == IF a >= 0 THEN a \div b ELSE -((-a) \div b)

\* sha256(amount_in || min_amount_out || deadline || salt): collision-free,
\* so the digest is identified with the tuple of what is hashed.  Sender,
\* route and recipient are not part of the payload.
CommitHash(amount_in, min_amount_out, deadline, salt) ==
    <<amount_in, min_amount_out, deadline, salt>>

\* ------------------------------------------------------------------ state

VARIABLES
    now,          \* e.ledger().sequence()
    paused,       \* StorageKey::Paused
    feeRate,      \* StorageKey::FeeRate
    pools,        \* addresses with a StorageKey::SupportedPool entry
    tokens,       \* StorageKey::AllowedToken(asset) -> TokenInfo
    tokenCount,   \* StorageKey::TokenCount
    mev,          \* StorageKey::MevConfig, an Option
    whitelist,    \* addresses with StorageKey::Whitelisted = true
    commitments,  \* StorageKey::Commitment(hash) -> CommitmentData (temporary)
    swapCount,    \* StorageKey::AccountSwapCount(addr), 0 when absent
    windowStart,  \* StorageKey::AccountSwapWindowStart(addr), 0 when absent
    nonce,        \* StorageKey::SwapNonce(addr), 0 when absent
    balances,     \* TOK balances kept by the token contract
    events,       \* the contract's published events, oldest first
    admin,        \* StorageKey::Admin, absent before initialize
    feeTo,        \* StorageKey::FeeTo
    poolCount,    \* StorageKey::PoolCount
    multisig,     \* StorageKey::IsMultiSig, FALSE when absent
    governance,   \* StorageKey::Governance, a GovernanceConfig once set
    guardian,     \* StorageKey::Guardian, an Option
    proposalCounter, \* StorageKey::ProposalCounter, 0 when absent
    proposals,    \* StorageKey::ProposalEntry(id) -> Proposal
    version,      \* StorageKey::ContractVersionKey, an Option
    migrations,   \* the (major, minor, patch) with a StorageKey::MigrationDone entry
    catIndex,     \* IdxKey::CatEntry(category, 0..CatLen(category)-1), as a list
    pendingUpgrade, \* StorageKey::PendingUpgradeKey, an Option
    versionHistory, \* StorageKey::VersionHistory(ledger) -> ContractVersion
    last          \* the call whose result is being returned to its caller

\* The entries of administration, governance and upgrade.
adminVars == <<admin, feeTo, poolCount, multisig, governance, guardian,
               proposalCounter, proposals, version, migrations, catIndex,
               pendingUpgrade, versionHistory>>

vars == <<now, paused, feeRate, pools, tokens, tokenCount, mev, whitelist,
          commitments, swapCount, windowStart, nonce, balances, events,
          adminVars, last>>

\* The ledger entries a call reads and writes, as one value.
Ledger ==
    [paused |-> paused, feeRate |-> feeRate, pools |-> pools, tokens |-> tokens,
     tokenCount |-> tokenCount, mev |-> mev, whitelist |-> whitelist,
     commitments |-> commitments, swapCount |-> swapCount,
     windowStart |-> windowStart, nonce |-> nonce, balances |-> balances,
     events |-> events, admin |-> admin, feeTo |-> feeTo,
     poolCount |-> poolCount, multisig |-> multisig, governance |-> governance,
     guardian |-> guardian, proposalCounter |-> proposalCounter,
     proposals |-> proposals, version |-> version, migrations |-> migrations,
     catIndex |-> catIndex, pendingUpgrade |-> pendingUpgrade,
     versionHistory |-> versionHistory]

Install(S) ==
    /\ paused' = S.paused
    /\ feeRate' = S.feeRate
    /\ pools' = S.pools
    /\ tokens' = S.tokens
    /\ tokenCount' = S.tokenCount
    /\ mev' = S.mev
    /\ whitelist' = S.whitelist
    /\ commitments' = S.commitments
    /\ swapCount' = S.swapCount
    /\ windowStart' = S.windowStart
    /\ nonce' = S.nonce
    /\ balances' = S.balances
    /\ events' = S.events
    /\ admin' = S.admin
    /\ feeTo' = S.feeTo
    /\ poolCount' = S.poolCount
    /\ multisig' = S.multisig
    /\ governance' = S.governance
    /\ guardian' = S.guardian
    /\ proposalCounter' = S.proposalCounter
    /\ proposals' = S.proposals
    /\ version' = S.version
    /\ migrations' = S.migrations
    /\ catIndex' = S.catIndex
    /\ pendingUpgrade' = S.pendingUpgrade
    /\ versionHistory' = S.versionHistory

\* An event as the ledger records it: its kind (the second topic), the
\* address it concerns, the ledger it was published in, and its data.
Event(kind, who, at, data) == [kind |-> kind, who |-> who, at |-> at, data |-> data]
Publish(S, kind, who, at, data) ==
    [S EXCEPT !.events = Append(@, Event(kind, who, at, data))]

\* What a call hands back: its result, the ledger as the call left it, and
\* the figures of a swap or quote.
Return(res, S, out, fee, impact) ==
    [res |-> res, st |-> S, out |-> out, fee |-> fee, impact |-> impact]
Err(e, S) == Return(e, S, 0, 0, 0)

\* A contract function returning Err, or trapping, fails the invocation: the
\* host drops every ledger write and event of the call.
InvokeKeepsWrites(S, r) == r.st
Invoke(S, r) == IF r.res = "Ok" THEN r.st ELSE S

\* ------------------------------------------------------- external contracts

\* token::Client::transfer: traps on a negative amount or a short balance.
TokenTransfer(bal, from, to, amount) ==
    IF amount < 0 \/ bal[from] < amount THEN None
    ELSE Some([bal EXCEPT ![from] = @ - amount, ![to] = @ + amount])

\* storage::transfer_asset: only Asset::Soroban is moved.
transfer_asset(bal, asset, from, to, amount) ==
    IF IsSoroban(asset) THEN TokenTransfer(bal, from, to, amount) ELSE Some(bal)

\* A pool adapter's reply to swap / adapter_quote for `amount`, by behaviour:
\* "p99" is the test suite's MockAmmPool (99 % of the input), "par" returns
\* the input, "gain" more than the input, "neg" a negative amount, "fail"
\* traps.
AdapterReply(kind, amount) ==
    CASE kind = "p99" -> Some(TruncDiv(amount * 99, 100))
      [] kind = "par" -> Some(amount)
      [] kind = "gain" -> Some(amount + 1)
      [] kind = "neg" -> Some(-1)
      [] OTHER -> None

\* The pool of the final hop hands its output to the router (the adapter's
\* swap "executes the actual swap"); a pool that cannot cover it hands over
\* nothing.
PoolDelivers(bal, asset, pool, amount) ==
    IF IsSoroban(asset) /\ amount > 0 /\ bal[pool] >= amount
    THEN [bal EXCEPT ![pool] = @ - amount, ![Router] = @ + amount]
    ELSE bal

\* ------------------------------------------------------------ token allowlist

\* storage::is_token_allowed.
is_token_allowed(S, asset) == asset \in DOMAIN S.tokens

\* tokens::validate_route_assets: skipped while the token count is 0.
validate_route_assets(S, route) ==
    IF S.tokenCount = 0 THEN "Ok"
    ELSE IF \E i \in 1..Len(route.hops) :
                \/ ~is_token_allowed(S, route.hops[i].source)
                \/ ~is_token_allowed(S, route.hops[i].destination)
         THEN "TokenNotAllowed"
         ELSE "Ok"

\* --------------------------------------------------------------- swap engine

\* Steps 1 and 2 of execute_swap_internal: the deadline, then not-before.
time_gate_deadline_inclusive(t, params) ==
    IF t >= params.deadline THEN "DeadlineExceeded"
    ELSE IF t < params.not_before THEN "ExecutionTooEarly"
    ELSE "Ok"
time_gate(t, params) ==
    IF t > params.deadline THEN "DeadlineExceeded"
    ELSE IF t < params.not_before THEN "ExecutionTooEarly"
    ELSE "Ok"

\* Step 4 of execute_swap_internal: the per-sender rate limit.
rate_limit(S, t, sender) ==
    IF S.mev = None \/ sender \in S.whitelist THEN Err("Ok", S)
    ELSE LET cfg == S.mev[1]
             window_start == S.windowStart[sender]
             swap_count == S.swapCount[sender]
         IN IF window_start > 0 /\ t < window_start + cfg.rate_limit_window
            THEN IF swap_count >= cfg.max_swaps_per_window
                 THEN Err("RateLimitExceeded",
                          Publish(S, "rl_hit", sender, t,
                                  <<swap_count, cfg.rate_limit_window>>))
                 ELSE Err("Ok", [S EXCEPT !.swapCount[sender] = swap_count + 1])
            ELSE Err("Ok", [S EXCEPT !.windowStart[sender] = t,
                                     !.swapCount[sender] = 1])

\* Step 5: get_rsrvs of every hop's pool; a failed call is recorded as (0, 0).
snapshot_reserves(env, n) ==
    [i \in 1..n |-> IF env.pre[i] = None THEN <<0, 0>> ELSE env.pre[i][1]]

\* Step 7: the hops in order, each fed the previous hop's output.
RECURSIVE swap_hops_keeps_input(_, _, _, _, _)
swap_hops_keeps_input(S, hops, replies, i, amount) ==
    IF i > Len(hops) THEN [res |-> "Ok", amount |-> amount]
    ELSE IF hops[i].pool \notin S.pools
         THEN [res |-> "PoolNotSupported", amount |-> amount]
         ELSE LET reply == AdapterReply(replies[i], amount)
              IN IF reply = None
                 THEN [res |-> "PoolCallFailed", amount |-> amount]
                 ELSE swap_hops_keeps_input(S, hops, replies, i + 1, amount)
RECURSIVE swap_hops(_, _, _, _, _)
swap_hops(S, hops, replies, i, amount) ==
    IF i > Len(hops) THEN [res |-> "Ok", amount |-> amount]
    ELSE IF hops[i].pool \notin S.pools
         THEN [res |-> "PoolNotSupported", amount |-> amount]
         ELSE LET reply == AdapterReply(replies[i], amount)
              IN IF reply = None
                 THEN [res |-> "PoolCallFailed", amount |-> amount]
                 ELSE swap_hops(S, hops, replies, i + 1, reply[1])

\* Step 8: the protocol fee on the last hop's output (get_quote computes it
\* the same way).
fee_amount_floor(current_amount, fee_rate) == (current_amount * fee_rate) \div BpsDenom
fee_amount_rebate(current_amount, fee_rate) == 0 - TruncDiv(current_amount * fee_rate, BpsDenom)
fee_amount(current_amount, fee_rate) == TruncDiv(current_amount * fee_rate, BpsDenom)

\* Step 9: the execution spread against route.estimated_output.
execution_spread(final_output, estimated_output) ==
    IF final_output < estimated_output
    THEN TruncDiv((estimated_output - final_output) * BpsDenom, estimated_output)
    ELSE 0

\* Step 9: the caller's bounds, in the order the code checks them.
slippage_guards_strict_minimum(params, total_impact_bps, final_output) ==
    IF params.max_price_impact_bps > 0 /\ total_impact_bps > params.max_price_impact_bps
    THEN "PriceImpactTooHigh"
    ELSE IF /\ params.max_execution_spread_bps > 0
            /\ params.route.estimated_output > 0
            /\ execution_spread(final_output, params.route.estimated_output)
                   > params.max_execution_spread_bps
         THEN "SpreadTooHigh"
         ELSE IF final_output <= params.min_amount_out
              THEN "SlippageExceeded"
              ELSE "Ok"
\* The caller's bounds with the minimum output checked first.
slippage_guards_minimum_first(params, total_impact_bps, final_output) ==
    IF final_output < params.min_amount_out
    THEN "SlippageExceeded"
    ELSE IF params.max_price_impact_bps > 0 /\ total_impact_bps > params.max_price_impact_bps
         THEN "PriceImpactTooHigh"
         ELSE IF /\ params.max_execution_spread_bps > 0
                 /\ params.route.estimated_output > 0
                 /\ execution_spread(final_output, params.route.estimated_output)
                        > params.max_execution_spread_bps
              THEN "SpreadTooHigh"
              ELSE "Ok"
slippage_guards(params, total_impact_bps, final_output) ==
    IF params.max_price_impact_bps > 0 /\ total_impact_bps > params.max_price_impact_bps
    THEN "PriceImpactTooHigh"
    ELSE IF /\ params.max_execution_spread_bps > 0
            /\ params.route.estimated_output > 0
            /\ execution_spread(final_output, params.route.estimated_output)
                   > params.max_execution_spread_bps
         THEN "SpreadTooHigh"
         ELSE IF final_output < params.min_amount_out
              THEN "SlippageExceeded"
              ELSE "Ok"

\* Step 10, one hop: both reserves moved the same way.  A hop whose snapshot
\* is (0, 0) is skipped, and so is one whose second get_rsrvs fails.
reserves_manipulated(pre, post) ==
    /\ ~(pre[1] = 0 /\ pre[2] = 0)
    /\ post # None
    /\ LET delta_0 == post[1][1] - pre[1]
           delta_1 == post[1][2] - pre[2]
       IN \/ (delta_0 > 0 /\ delta_1 > 0)
          \/ (delta_0 < 0 /\ delta_1 < 0)

\* Steps 11 and 12 with the nonce and the swap event: everything after the
\* guards.  A trapping transfer fails the call.
settle(S, t, sender, params, total_impact_bps, final_output, fee) ==
    LET n == Len(params.route.hops)
        last_hop == params.route.hops[n]
        S1 == IF S.mev # None /\ total_impact_bps > S.mev[1].high_impact_threshold_bps
              THEN Publish(S, "hi_imp", sender, t,
                           <<total_impact_bps, params.amount_in>>)
              ELSE S
        b1 == transfer_asset(S1.balances, last_hop.destination, Router,
                             params.recipient, final_output)
    IN IF b1 = None THEN Err("TransferOutTrapped", S1)
       ELSE LET b2 == transfer_asset(b1[1], last_hop.destination, Router, S.feeTo, fee)
            IN IF b2 = None THEN Err("TransferOutTrapped", [S1 EXCEPT !.balances = b1[1]])
               ELSE Return("Ok",
                           Publish([S1 EXCEPT !.balances = b2[1],
                                              !.nonce[sender] = @ + 1],
                                   "swap", sender, t,
                                   <<params.amount_in, final_output, fee>>),
                           final_output, fee, total_impact_bps)

\* execute_swap_internal, shared by execute_swap and reveal_and_execute.
execute_swap_internal(S, t, sender, params, env) ==
    LET hops == params.route.hops
        n == Len(hops)
    IN
    IF time_gate(t, params) # "Ok" THEN Err(time_gate(t, params), S)
    ELSE IF n = 0 \/ n > MaxHops THEN Err("InvalidRoute", S)
    ELSE
    LET rl == rate_limit(S, t, sender) IN
    IF rl.res # "Ok" THEN rl
    ELSE
    LET pre_reserves == snapshot_reserves(env, n)
        b0 == transfer_asset(rl.st.balances, hops[1].source, sender, hops[1].pool,
                             params.amount_in)
    IN
    IF b0 = None THEN Err("TransferInTrapped", rl.st)
    ELSE
    LET S1 == [rl.st EXCEPT !.balances = b0[1]]
        run == swap_hops(S1, hops, env.swap, 1, params.amount_in)
    IN
    IF run.res # "Ok" THEN Err(run.res, S1)
    ELSE
    LET S2 == [S1 EXCEPT !.balances =
                   PoolDelivers(@, hops[n].destination, hops[n].pool, run.amount)]
        total_impact_bps == ImpactPerHop * n
        fee == fee_amount(run.amount, S2.feeRate)
        final_output == run.amount - fee
        guard == slippage_guards(params, total_impact_bps, final_output)
    IN
    IF guard # "Ok" THEN Err(guard, S2)
    ELSE IF \E i \in 1..n : reserves_manipulated(pre_reserves[i], env.post[i])
         THEN Err("ReserveManipulationDetected", S2)
         ELSE settle(S2, t, sender, params, total_impact_bps, final_output, fee)

\* execute_swap: swaps at or above commit_threshold need a commitment.
commitment_required_above_threshold(S, params) ==
    S.mev # None /\ params.amount_in > S.mev[1].commit_threshold
commitment_required(S, params) ==
    S.mev # None /\ params.amount_in >= S.mev[1].commit_threshold

\* router::execute_swap.
execute_swap(S, t, sender, params, env) ==
    IF S.paused THEN Err("Paused", S)
    ELSE IF validate_route_assets(S, params.route) # "Ok"
         THEN Err("TokenNotAllowed", S)
         ELSE IF commitment_required(S, params)
              THEN Err("CommitmentRequired", S)
              ELSE execute_swap_internal(S, t, sender, params, env)

\* router::commit_swap.
commit_swap(S, t, sender, commitment_hash, deposit_amount) ==
    IF S.paused THEN Err("Paused", S)
    ELSE IF deposit_amount <= 0 THEN Err("InvalidAmount", S)
    ELSE IF S.mev = None THEN Err("NotInitialized", S)
    ELSE LET commitment == [sender |-> sender,
                            deposit_amount |-> deposit_amount,
                            created_at |-> t,
                            expires_at |-> t + S.mev[1].commit_window_ledgers]
         IN Err("Ok",
                Publish([S EXCEPT !.commitments =
                             (commitment_hash :> commitment) @@ @],
                        "cmt_new", sender, t, <<commitment_hash, deposit_amount>>))

remove_commitment_keeps_entry(cs, hash) == cs
remove_commitment(cs, hash) == [h \in DOMAIN cs \ {hash} |-> cs[h]]

\* reveal_and_execute: the commitment exists, is the sender's, has not expired.
verify_commitment_any_sender(S, t, sender, hash) ==
    IF hash \notin DOMAIN S.commitments THEN "CommitmentNotFound"
    ELSE IF t > S.commitments[hash].expires_at THEN "CommitmentExpired"
    ELSE "Ok"
verify_commitment(S, t, sender, hash) ==
    IF hash \notin DOMAIN S.commitments THEN "CommitmentNotFound"
    ELSE IF S.commitments[hash].sender # sender THEN "InvalidReveal"
    ELSE IF t > S.commitments[hash].expires_at THEN "CommitmentExpired"
    ELSE "Ok"

\* router::reveal_and_execute.
reveal_and_execute(S, t, sender, params, salt, env) ==
    LET computed_hash == CommitHash(params.amount_in, params.min_amount_out,
                                    params.deadline, salt)
    IN
    IF S.paused THEN Err("Paused", S)
    ELSE IF verify_commitment(S, t, sender, computed_hash) # "Ok"
         THEN Err(verify_commitment(S, t, sender, computed_hash), S)
         ELSE execute_swap_internal(
                  Publish([S EXCEPT !.commitments = remove_commitment(@, computed_hash)],
                          "cmt_rev", sender, t, <<computed_hash>>),
                  t, sender, params, env)

\* Step of get_quote's loop: adapter_quote of every hop in order.
RECURSIVE quote_hops(_, _, _, _, _)
quote_hops(S, hops, replies, i, amount) ==
    IF i > Len(hops) THEN [res |-> "Ok", amount |-> amount]
    ELSE IF hops[i].pool \notin S.pools
         THEN [res |-> "PoolNotSupported", amount |-> amount]
         ELSE LET reply == AdapterReply(replies[i], amount)
              IN IF reply = None
                 THEN [res |-> "PoolCallFailed", amount |-> amount]
                 ELSE quote_hops(S, hops, replies, i + 1, reply[1])

\* router::get_quote.
get_quote(S, amount_in, route, replies) ==
    IF amount_in <= 0 \/ Len(route.hops) = 0 \/ Len(route.hops) > MaxHops
    THEN Err("InvalidRoute", S)
    ELSE IF validate_route_assets(S, route) # "Ok" THEN Err("TokenNotAllowed", S)
    ELSE LET run == quote_hops(S, route.hops, replies, 1, amount_in)
         IN IF run.res # "Ok" THEN Err(run.res, S)
            ELSE LET fee == fee_amount(run.amount, S.feeRate)
                 IN Return("Ok", S, run.amount - fee, fee,
                           ImpactPerHop * Len(route.hops))

\* ------------------------------------------------------------ administration

\* Address::require_auth of the stored admin: the invocation traps unless
\* the caller carries the admin's authorization.
require_admin_auth(S, caller) == S.admin = Some(caller)

\* router::register_pool.
register_pool(S, t, caller, pool) ==
    IF S.multisig THEN Err("UseGovernance", S)
    ELSE IF ~require_admin_auth(S, caller) THEN Err("AuthTrapped", S)
    ELSE IF pool \in S.pools THEN Err("PoolNotSupported", S)
    ELSE Return("Ok",
                Publish([S EXCEPT !.pools = @ \cup {pool}, !.poolCount = @ + 1],
                        "reg_pol", pool, t, << >>),
                0, 0, 0)

\* router::pause and router::unpause.
pause_keeps_running(S, t, caller) == Return("Ok", S, 0, 0, 0)
pause(S, t, caller) ==
    IF S.multisig THEN Err("UseGovernance", S)
    ELSE IF ~require_admin_auth(S, caller) THEN Err("AuthTrapped", S)
    ELSE Return("Ok", Publish([S EXCEPT !.paused = TRUE], "paused", Router, t, << >>),
                0, 0, 0)

unpause(S, t, caller) ==
    IF S.multisig THEN Err("UseGovernance", S)
    ELSE IF ~require_admin_auth(S, caller) THEN Err("AuthTrapped", S)
    ELSE Return("Ok", Publish([S EXCEPT !.paused = FALSE], "unpaused", Router, t, << >>),
                0, 0, 0)

\* router::set_admin.
set_admin(S, t, caller, new_admin) ==
    IF S.multisig THEN Err("UseGovernance", S)
    ELSE IF ~require_admin_auth(S, caller) THEN Err("AuthTrapped", S)
    ELSE Return("Ok",
                Publish([S EXCEPT !.admin = Some(new_admin)], "adm_chg", S.admin[1],
                        t, <<new_admin>>),
                0, 0, 0)


\* ------------------------------------------------------------ token allowlist

MaxBatch == 10

\* tokens::require_admin_auth: "Ok" or the error of a caller who authorized
\* the call.
token_admin_auth_single(S, caller) ==
    IF S.admin # Some(caller) THEN "Unauthorized" ELSE "Ok"
token_admin_auth(S, caller) ==
    IF S.multisig THEN "UseGovernance"
    ELSE IF S.admin # Some(caller) THEN "Unauthorized"
    ELSE "Ok"

\* tokens::push_cat_entry.
push_cat_entry(S, category, asset) ==
    [S EXCEPT !.catIndex[category] = Append(@, asset)]

\* storage::save_token_info: the entry is keyed by the info's own asset.
save_token_info(S, info) ==
    [S EXCEPT !.tokens = [a \in DOMAIN @ \cup {info.asset} |->
                             IF a = info.asset THEN info ELSE @[a]]]

\* tokens::add_token_internal.
add_token_internal(S, t, caller, info) ==
    IF is_token_allowed(S, info.asset) THEN Err("TokenAlreadyAdded", S)
    ELSE LET S1 == push_cat_entry(save_token_info(S, info), info.category, info.asset)
         IN Return("Ok",
                   Publish([S1 EXCEPT !.tokenCount = @ + 1], "tok_add", caller, t,
                           <<info.asset>>),
                   0, 0, 0)

\* tokens::add_token (router::add_token passes through).
add_token(S, t, caller, info) ==
    IF token_admin_auth(S, caller) # "Ok" THEN Err(token_admin_auth(S, caller), S)
    ELSE add_token_internal(S, t, caller, info)

\* tokens::remove_token_internal: an asset that is a contract address is kept
\* while a pool is registered under that address.
remove_token_internal(S, t, caller, asset) ==
    IF ~is_token_allowed(S, asset) THEN Err("TokenNotAllowed", S)
    ELSE IF IsSoroban(asset) /\ asset \in S.pools THEN Err("TokenInUse", S)
    ELSE Return("Ok",
                Publish([S EXCEPT !.tokens = [a \in DOMAIN @ \ {asset} |-> @[a]],
                                  !.tokenCount = IF @ > 0 THEN @ - 1 ELSE @],
                        "tok_rm", caller, t, <<asset>>),
                0, 0, 0)

\* tokens::remove_token (router::remove_token passes through).
remove_token(S, t, caller, asset) ==
    IF token_admin_auth(S, caller) # "Ok" THEN Err(token_admin_auth(S, caller), S)
    ELSE remove_token_internal(S, t, caller, asset)

\* tokens::update_token_internal.
update_token_internal(S, t, caller, asset, updated) ==
    IF ~is_token_allowed(S, asset) THEN Err("TokenNotAllowed", S)
    ELSE Return("Ok",
                Publish(save_token_info(S, updated), "tok_upd", caller, t, <<asset>>),
                0, 0, 0)

\* tokens::update_token (router::update_token passes through).
update_token(S, t, caller, asset, updated) ==
    IF token_admin_auth(S, caller) # "Ok" THEN Err(token_admin_auth(S, caller), S)
    ELSE update_token_internal(S, t, caller, asset, updated)

\* The loop of tokens::add_tokens_batch from entry i on: the first failing
\* add ends the call.
RECURSIVE add_tokens_from(_, _, _, _, _)
add_tokens_from(S, t, caller, token_list, i) ==
    IF i > Len(token_list) THEN Return("Ok", S, 0, 0, 0)
    ELSE LET r == add_token_internal(S, t, caller, token_list[i])
         IN IF r.res # "Ok" THEN r
            ELSE add_tokens_from(r.st, t, caller, token_list, i + 1)

\* tokens::add_tokens_batch (router::add_tokens_batch passes through).
add_tokens_batch(S, t, caller, token_list) ==
    IF token_admin_auth(S, caller) # "Ok" THEN Err(token_admin_auth(S, caller), S)
    ELSE IF Len(token_list) > MaxBatch THEN Err("BatchTooLarge", S)
    ELSE add_tokens_from(S, t, caller, token_list, 1)

\* tokens::get_tokens_by_category: the index entries that are still allowed.
RECURSIVE allowed_entries(_, _, _)
allowed_entries(S, entries, i) ==
    IF i > Len(entries) THEN << >>
    ELSE (IF is_token_allowed(S, entries[i]) THEN <<entries[i]>> ELSE << >>)
         \o allowed_entries(S, entries, i + 1)
get_tokens_by_category(S, category) == allowed_entries(S, S.catIndex[category], 1)

\* ------------------------------------------------------------------- upgrade

ZeroHash == 0

\* upgrade::get_version: the stored version, or 1.0.0 with a zero hash.
get_version(S) ==
    IF S.version = None
    THEN [major |-> 1, minor |-> 0, patch |-> 0, wasm_hash |-> ZeroHash, upgraded_at |-> 0]
    ELSE S.version[1]

\* storage::set_contract_version: the current version, and the history
\* entry of the ledger it was activated in.
set_contract_version(S, v) ==
    [S EXCEPT !.version = Some(v),
              !.versionHistory =
                  [l \in DOMAIN @ \cup {v.upgraded_at} |->
                      IF l = v.upgraded_at THEN v ELSE @[l]]]

\* upgrade::migrate: the hook of a version runs once.
migrate_again(S, t, v) ==
    Return("Ok",
           Publish([S EXCEPT !.migrations = @ \cup {<<v.major, v.minor, v.patch>>}],
                   "mig_done", Router, t, <<v.major, v.minor, v.patch>>),
           0, 0, 0)
migrate(S, t, v) ==
    IF <<v.major, v.minor, v.patch>> \in S.migrations
    THEN Err("MigrationAlreadyDone", S)
    ELSE Return("Ok",
                Publish([S EXCEPT !.migrations = @ \cup {<<v.major, v.minor, v.patch>>}],
                        "mig_done", Router, t, <<v.major, v.minor, v.patch>>),
                0, 0, 0)

\* upgrade::execute_wasm_upgrade.
execute_wasm_upgrade(S, t, new_wasm_hash) ==
    LET old_version == get_version(S)
        new_version == [old_version EXCEPT !.patch = @ + 1,
                                           !.wasm_hash = new_wasm_hash,
                                           !.upgraded_at = t]
    IN IF old_version.wasm_hash = new_wasm_hash THEN Err("SameWasmHash", S)
       ELSE migrate(Publish(set_contract_version(S, new_version), "upg_done",
                            Router, t, <<old_version.wasm_hash, new_wasm_hash>>),
                    t, new_version)

\* upgrade::MIN_DELAY_LEDGERS.
MinDelayLedgers == 4320

\* upgrade::propose_upgrade (router::propose_upgrade passes through); the
\* caller authorizes as admin.
propose_upgrade(S, t, caller, new_wasm_hash, execute_after) ==
    LET current == get_version(S)
        effective_after == IF execute_after < t + MinDelayLedgers
                           THEN t + MinDelayLedgers
                           ELSE execute_after
        pending == [new_wasm_hash |-> new_wasm_hash, proposed_at |-> t,
                    execute_after |-> effective_after, proposer |-> caller]
    IN IF S.admin # Some(caller) THEN Err("Unauthorized", S)
       ELSE IF S.multisig THEN Err("UseGovernance", S)
       ELSE IF S.paused THEN Err("Paused", S)
       ELSE IF current.wasm_hash = new_wasm_hash THEN Err("SameWasmHash", S)
       ELSE IF new_wasm_hash = ZeroHash THEN Err("InvalidAmount", S)
       ELSE IF S.pendingUpgrade # None THEN Err("UpgradePending", S)
       ELSE Return("Ok",
                   Publish([S EXCEPT !.pendingUpgrade = Some(pending)], "upg_prp",
                           caller, t,
                           <<current.wasm_hash, new_wasm_hash, effective_after>>),
                   0, 0, 0)

\* upgrade::execute_upgrade (router::execute_upgrade passes through): no
\* caller is named, anyone may invoke it.
execute_upgrade_unlocked(S, t) ==
    IF S.pendingUpgrade = None THEN Err("NoUpgradePending", S)
    ELSE IF S.paused THEN Err("Paused", S)
    ELSE execute_wasm_upgrade([S EXCEPT !.pendingUpgrade = None], t,
                              S.pendingUpgrade[1].new_wasm_hash)
execute_upgrade_keeps_pending(S, t) ==
    IF S.pendingUpgrade = None THEN Err("NoUpgradePending", S)
    ELSE IF t < S.pendingUpgrade[1].execute_after THEN Err("UpgradeLocked", S)
    ELSE IF S.paused THEN Err("Paused", S)
    ELSE execute_wasm_upgrade(S, t, S.pendingUpgrade[1].new_wasm_hash)
execute_upgrade(S, t) ==
    IF S.pendingUpgrade = None THEN Err("NoUpgradePending", S)
    ELSE IF t < S.pendingUpgrade[1].execute_after THEN Err("UpgradeLocked", S)
    ELSE IF S.paused THEN Err("Paused", S)
    ELSE execute_wasm_upgrade([S EXCEPT !.pendingUpgrade = None], t,
                              S.pendingUpgrade[1].new_wasm_hash)

\* upgrade::cancel_upgrade (router::cancel_upgrade passes through); the
\* caller authorizes as admin.
cancel_upgrade(S, t, caller) ==
    IF S.pendingUpgrade = None THEN Err("NoUpgradePending", S)
    ELSE IF S.pendingUpgrade[1].proposer # caller THEN Err("Unauthorized", S)
    ELSE Return("Ok",
                Publish([S EXCEPT !.pendingUpgrade = None], "upg_can", caller, t,
                        << >>),
                0, 0, 0)

\* upgrade::get_version_at, an Option.
get_version_at(S, ledger) ==
    IF ledger \in DOMAIN S.versionHistory THEN Some(S.versionHistory[ledger])
    ELSE None

\* ---------------------------------------------------------------- governance

MaxSigners == 10

\* A ProposalAction: its variant and the variant's argument (0 for none).
ProposalAction(kind, arg) == [kind |-> kind, arg |-> arg]

is_signer(config, addr) == \E i \in 1..Len(config.signers) : config.signers[i] = addr
has_approved(p, addr) == \E i \in 1..Len(p.approvals) : p.approvals[i] = addr

\* The signer list without every entry equal to `signer`.
RECURSIVE without_signer(_, _)
without_signer(signers, signer) ==
    IF signers = << >> THEN << >>
    ELSE IF Head(signers) = signer THEN without_signer(Tail(signers), signer)
         ELSE <<Head(signers)>> \o without_signer(Tail(signers), signer)

\* governance::dispatch_action.
dispatch_action(S, t, action) ==
    LET config == S.governance[1]
        ok(S1) == Return("Ok", S1, 0, 0, 0)
    IN CASE action.kind = "SetFeeRate" ->
              IF action.arg > MaxFeeRate THEN Err("InvalidAmount", S)
              ELSE ok([S EXCEPT !.feeRate = action.arg])
         [] action.kind = "SetFeeTo" -> ok([S EXCEPT !.feeTo = action.arg])
         [] action.kind = "RegisterPool" ->
              ok(Publish([S EXCEPT !.pools = @ \cup {action.arg}, !.poolCount = @ + 1],
                         "reg_pol", action.arg, t, << >>))
         [] action.kind = "DeregisterPool" ->
              ok([S EXCEPT !.pools = @ \ {action.arg},
                           !.poolCount = IF @ > 0 THEN @ - 1 ELSE @])
         [] action.kind = "Pause" ->
              ok(Publish([S EXCEPT !.paused = TRUE], "paused", Router, t, << >>))
         [] action.kind = "Unpause" ->
              ok(Publish([S EXCEPT !.paused = FALSE], "unpaused", Router, t, << >>))
         [] action.kind = "Upgrade" -> execute_wasm_upgrade(S, t, action.arg)
         [] action.kind = "AddSigner" ->
              IF Len(config.signers) >= MaxSigners THEN Err("SignerLimitReached", S)
              ELSE ok([S EXCEPT !.governance =
                          Some([config EXCEPT !.signers = Append(@, action.arg)])])
         [] action.kind = "RemoveSigner" ->
              IF Len(config.signers) <= config.threshold THEN Err("ThresholdNotMet", S)
              ELSE ok([S EXCEPT !.governance =
                          Some([config EXCEPT
                                   !.signers = without_signer(@, action.arg)])])
         [] action.kind = "ChangeThreshold" ->
              IF action.arg = 0 \/ action.arg > Len(config.signers)
              THEN Err("InvalidAmount", S)
              ELSE ok([S EXCEPT !.governance =
                          Some([config EXCEPT !.threshold = action.arg])])

\* governance::init_governance.
init_governance(S, t, signers, threshold, proposal_ttl, guard) ==
    IF signers = << >> \/ threshold = 0 \/ threshold > Len(signers)
    THEN Err("InvalidAmount", S)
    ELSE IF Len(signers) > MaxSigners THEN Err("SignerLimitReached", S)
    ELSE LET S1 == [S EXCEPT !.governance =
                       Some([signers |-> signers, threshold |-> threshold,
                             proposal_ttl |-> proposal_ttl])]
         IN Return("Ok",
                   IF guard = None THEN S1
                   ELSE Publish([S1 EXCEPT !.guardian = guard], "grd_set", guard[1],
                                t, << >>),
                   0, 0, 0)

\* governance::migrate_to_multisig (router::migrate_to_multisig passes through).
migrate_to_multisig_again(S, t, caller, signers, threshold, proposal_ttl, guard) ==
    IF S.admin # Some(caller) THEN Err("Unauthorized", S)
    ELSE LET r == init_governance(S, t, signers, threshold, proposal_ttl, guard)
         IN IF r.res # "Ok" THEN r
            ELSE Return("Ok",
                        Publish([r.st EXCEPT !.multisig = TRUE], "gov_mgr", caller, t,
                                <<Len(signers), threshold>>),
                        0, 0, 0)
migrate_to_multisig(S, t, caller, signers, threshold, proposal_ttl, guard) ==
    IF S.admin # Some(caller) THEN Err("Unauthorized", S)
    ELSE IF S.multisig THEN Err("AlreadyInitialized", S)
    ELSE LET r == init_governance(S, t, signers, threshold, proposal_ttl, guard)
         IN IF r.res # "Ok" THEN r
            ELSE Return("Ok",
                        Publish([r.st EXCEPT !.multisig = TRUE], "gov_mgr", caller, t,
                                <<Len(signers), threshold>>),
                        0, 0, 0)

\* storage::save_proposal.
save_proposal(S, proposal) ==
    [S EXCEPT !.proposals =
        [id \in DOMAIN @ \cup {proposal.id} |->
            IF id = proposal.id THEN proposal ELSE @[id]]]

\* governance::execute_proposal: the proposal is saved as executed, then its
\* action is dispatched; an Err of the dispatch is this function's Err.
execute_proposal_past_expiry(S, t, proposal_id) ==
    LET config == S.governance[1]
        proposal == S.proposals[proposal_id]
        S1 == save_proposal(S, [proposal EXCEPT !.executed = TRUE])
        r == dispatch_action(S1, t, proposal.action)
    IN IF proposal_id \notin DOMAIN S.proposals THEN Err("ProposalNotFound", S)
       ELSE IF proposal.executed THEN Err("ProposalAlreadyExecuted", S)
       ELSE IF Len(proposal.approvals) < config.threshold THEN Err("ThresholdNotMet", S)
       ELSE IF r.res # "Ok" THEN r
       ELSE Return("Ok", Publish(r.st, "prop_exe", Router, t, <<proposal_id>>), 0, 0, 0)
execute_proposal(S, t, proposal_id) ==
    LET config == S.governance[1]
        proposal == S.proposals[proposal_id]
        S1 == save_proposal(S, [proposal EXCEPT !.executed = TRUE])
        r == dispatch_action(S1, t, proposal.action)
    IN IF proposal_id \notin DOMAIN S.proposals THEN Err("ProposalNotFound", S)
       ELSE IF proposal.executed THEN Err("ProposalAlreadyExecuted", S)
       ELSE IF t > proposal.expires_at THEN Err("ProposalExpired", S)
       ELSE IF Len(proposal.approvals) < config.threshold THEN Err("ThresholdNotMet", S)
       ELSE IF r.res # "Ok" THEN r
       ELSE Return("Ok", Publish(r.st, "prop_exe", Router, t, <<proposal_id>>), 0, 0, 0)


\* governance::guardian_pause (router::guardian_pause passes through); the
\* caller authorizes as guardian.
guardian_pause_any_caller(S, t, caller) ==
    Return("Ok", Publish([S EXCEPT !.paused = TRUE], "grd_pse", caller, t, << >>),
           0, 0, 0)
guardian_pause(S, t, caller) ==
    IF S.guardian = None THEN Err("Unauthorized", S)
    ELSE IF S.guardian[1] # caller THEN Err("Unauthorized", S)
    ELSE Return("Ok", Publish([S EXCEPT !.paused = TRUE], "grd_pse", caller, t, << >>),
                0, 0, 0)

\* governance::propose; `out` of the result is the new proposal's id.
propose(S, t, signer, action) ==
    LET config == S.governance[1]
        id == S.proposalCounter + 1
        proposal == [id |-> id, action |-> action, proposer |-> signer,
                     approvals |-> <<signer>>, created_at |-> t,
                     expires_at |-> t + config.proposal_ttl, executed |-> FALSE]
        S1 == Publish(save_proposal([S EXCEPT !.proposalCounter = id], proposal),
                      "prop_new", signer, t, <<id, action>>)
        r == execute_proposal(S1, t, id)
    IN IF ~is_signer(config, signer) THEN Err("Unauthorized", S)
       ELSE IF config.threshold # 1 THEN Return("Ok", S1, id, 0, 0)
       ELSE IF r.res # "Ok" THEN r
       ELSE Return("Ok", r.st, id, 0, 0)

\* governance::approve.
approve_again(S, t, signer, proposal_id) ==
    LET config == S.governance[1]
        proposal == S.proposals[proposal_id]
        approved == [proposal EXCEPT !.approvals = Append(@, signer)]
        approval_count == Len(approved.approvals)
        S1 == Publish(save_proposal(S, approved), "prop_apr", signer, t,
                      <<proposal_id, approval_count>>)
    IN IF ~is_signer(config, signer) THEN Err("Unauthorized", S)
       ELSE IF proposal_id \notin DOMAIN S.proposals THEN Err("ProposalNotFound", S)
       ELSE IF proposal.executed THEN Err("ProposalAlreadyExecuted", S)
       ELSE IF t > proposal.expires_at THEN Err("ProposalExpired", S)
       ELSE IF approval_count >= config.threshold THEN execute_proposal(S1, t, proposal_id)
       ELSE Return("Ok", S1, 0, 0, 0)
approve(S, t, signer, proposal_id) ==
    LET config == S.governance[1]
        proposal == S.proposals[proposal_id]
        approved == [proposal EXCEPT !.approvals = Append(@, signer)]
        approval_count == Len(approved.approvals)
        S1 == Publish(save_proposal(S, approved), "prop_apr", signer, t,
                      <<proposal_id, approval_count>>)
    IN IF ~is_signer(config, signer) THEN Err("Unauthorized", S)
       ELSE IF proposal_id \notin DOMAIN S.proposals THEN Err("ProposalNotFound", S)
       ELSE IF proposal.executed THEN Err("ProposalAlreadyExecuted", S)
       ELSE IF t > proposal.expires_at THEN Err("ProposalExpired", S)
       ELSE IF has_approved(proposal, signer) THEN Err("AlreadyApproved", S)
       ELSE IF approval_count >= config.threshold THEN execute_proposal(S1, t, proposal_id)
       ELSE Return("Ok", S1, 0, 0, 0)

\* governance::cancel.
cancel_reopens(S, t, signer, proposal_id) ==
    LET config == S.governance[1]
        proposal == S.proposals[proposal_id]
    IN IF proposal_id \notin DOMAIN S.proposals THEN Err("ProposalNotFound", S)
       ELSE IF proposal.proposer # signer /\ ~is_signer(config, signer)
            THEN Err("Unauthorized", S)
       ELSE Return("Ok",
                   Publish(save_proposal(S, [proposal EXCEPT !.executed = ~@]),
                           "prop_can", signer, t, <<proposal_id>>),
                   0, 0, 0)
cancel(S, t, signer, proposal_id) ==
    LET config == S.governance[1]
        proposal == S.proposals[proposal_id]
    IN IF proposal_id \notin DOMAIN S.proposals THEN Err("ProposalNotFound", S)
       ELSE IF proposal.executed THEN Err("ProposalAlreadyExecuted", S)
       ELSE IF proposal.proposer # signer /\ ~is_signer(config, signer)
            THEN Err("Unauthorized", S)
       ELSE Return("Ok",
                   Publish(save_proposal(S, [proposal EXCEPT !.executed = TRUE]),
                           "prop_can", signer, t, <<proposal_id>>),
                   0, 0, 0)

\* The router's governance entry points: NotMultiSig in single-admin mode.
router_propose(S, t, signer, action) ==
    IF ~S.multisig THEN Err("NotMultiSig", S) ELSE propose(S, t, signer, action)
router_approve_proposal(S, t, signer, proposal_id) ==
    IF ~S.multisig THEN Err("NotMultiSig", S) ELSE approve(S, t, signer, proposal_id)
router_execute_proposal(S, t, proposal_id) ==
    IF ~S.multisig THEN Err("NotMultiSig", S) ELSE execute_proposal(S, t, proposal_id)
router_cancel_proposal(S, t, signer, proposal_id) ==
    IF ~S.multisig THEN Err("NotMultiSig", S) ELSE cancel(S, t, signer, proposal_id)

\* 7 days of ledgers, the proposal_ttl of an initialize that names none.
DefaultProposalTtl == 17280 * 7

\* upgrade::set_initial_version.
set_initial_version(S, t, wasm_hash) ==
    set_contract_version(S, [major |-> 1, minor |-> 0, patch |-> 0,
                             wasm_hash |-> wasm_hash, upgraded_at |-> t])

\* router::configure_mev: the stored admin authorizes, in either mode.
configure_mev(S, t, caller, config) ==
    IF ~require_admin_auth(S, caller) THEN Err("AuthTrapped", S)
    ELSE Return("Ok", [S EXCEPT !.mev = Some(config)], 0, 0, 0)

\* router::set_whitelist: the stored admin authorizes, in either mode.
set_whitelist(S, t, caller, address, whitelisted) ==
    IF ~require_admin_auth(S, caller) THEN Err("AuthTrapped", S)
    ELSE Return("Ok",
                [S EXCEPT !.whitelist = IF whitelisted THEN @ \cup {address}
                                        ELSE @ \ {address}],
                0, 0, 0)

\* initialize without the bound on fee_rate.
initialize_any_fee(S, t, new_admin, fee_rate, fee_to, signers, threshold, ttl, guard, wasm) ==
    LET S1 == [S EXCEPT !.admin = Some(new_admin), !.feeRate = fee_rate,
                        !.feeTo = fee_to, !.paused = FALSE]
        r == init_governance(S1, t, signers[1], threshold[1],
                             IF ttl = None THEN DefaultProposalTtl
                             ELSE ttl[1],
                             guard)
        S2 == IF signers # None /\ threshold # None
              THEN Publish([r.st EXCEPT !.multisig = TRUE], "gov_mgr", new_admin, t,
                           <<Len(signers[1]), threshold[1]>>)
              ELSE S1
        S3 == IF wasm # None
              THEN set_initial_version(S2, t, wasm[1])
              ELSE S2
    IN IF S.admin # None THEN Err("AlreadyInitialized", S)
       ELSE IF signers # None /\ threshold # None /\ r.res # "Ok" THEN r
       ELSE Return("Ok", Publish(S3, "init", new_admin, t, <<fee_rate>>), 0, 0, 0)

\* router::initialize; signers, threshold, ttl (proposal_ttl), guard and
\* wasm (initial_wasm_hash) are Options.
initialize(S, t, new_admin, fee_rate, fee_to, signers, threshold, ttl, guard, wasm) ==
    LET S1 == [S EXCEPT !.admin = Some(new_admin), !.feeRate = fee_rate,
                        !.feeTo = fee_to, !.paused = FALSE]
        r == init_governance(S1, t, signers[1], threshold[1],
                             IF ttl = None THEN DefaultProposalTtl
                             ELSE ttl[1],
                             guard)
        S2 == IF signers # None /\ threshold # None
              THEN Publish([r.st EXCEPT !.multisig = TRUE], "gov_mgr", new_admin, t,
                           <<Len(signers[1]), threshold[1]>>)
              ELSE S1
        S3 == IF wasm # None
              THEN set_initial_version(S2, t, wasm[1])
              ELSE S2
    IN IF S.admin # None THEN Err("AlreadyInitialized", S)
       ELSE IF fee_rate > MaxFeeRate THEN Err("InvalidAmount", S)
       ELSE IF signers # None /\ threshold # None /\ r.res # "Ok" THEN r
       ELSE Return("Ok", Publish(S3, "init", new_admin, t, <<fee_rate>>), 0, 0, 0)

\* ------------------------------------------------------------------- inputs

Hop(source, destination, pool) ==
    [source |-> source, destination |-> destination, pool |-> pool]

\* A route of n hops through one pool (the test suite's make_route).
\* Route.min_output and Route.expires_at are never read by the contract.
make_route(asset, pool, n, estimated_output) ==
    [hops |-> [i \in 1..n |-> Hop(asset, asset, pool)],
     estimated_output |-> estimated_output]

FarDeadline == MaxTick + 1

\* The test suite's swap_params_for: no optional bound set.
swap_params_for(route, amount_in, min_out, deadline) ==
    [route |-> route, amount_in |-> amount_in, min_amount_out |-> min_out,
     recipient |-> Carol, deadline |-> deadline, not_before |-> 0,
     max_price_impact_bps |-> 0, max_execution_spread_bps |-> 0]

\* What the pools answer during one call: get_rsrvs before the trade, swap,
\* get_rsrvs after the trade, per hop.
Replies(pre, swap, post) == [pre |-> pre, swap |-> swap, post |-> post]
SteadyReserves == Some(<<5, 5>>)
TradedReserves == Some(<<6, 4>>)
\* A well-behaved pool of the given swap behaviours.
FairPool(kinds) ==
    Replies([i \in 1..Len(kinds) |-> SteadyReserves], kinds,
            [i \in 1..Len(kinds) |-> TradedReserves])

\* ------------------------------------------------------------------ actions

NoCall == [op |-> "none"]
Idle == last = NoCall /\ Len(events) < MaxEvents

SwapCall(op, sender, params, salt, env, r, t) ==
    [op |-> op, who |-> sender, p |-> params, salt |-> salt, env |-> env,
     res |-> r.res, out |-> r.out, fee |-> r.fee, impact |-> r.impact, at |-> t]

ExecuteSwap(sender, params, env) ==
    /\ Idle
    /\ LET r == execute_swap(Ledger, now, sender, params, env)
       IN /\ Install(Invoke(Ledger, r))
          /\ last' = SwapCall("execute_swap", sender, params, 0, env, r, now)
    /\ now' = now

RevealAndExecute(sender, params, salt, env) ==
    /\ Idle
    /\ LET r == reveal_and_execute(Ledger, now, sender, params, salt, env)
       IN /\ Install(Invoke(Ledger, r))
          /\ last' = SwapCall("reveal_and_execute", sender, params, salt, env, r, now)
    /\ now' = now

CommitSwap(sender, commitment_hash, deposit_amount) ==
    /\ Idle
    /\ LET r == commit_swap(Ledger, now, sender, commitment_hash, deposit_amount)
       IN /\ Install(Invoke(Ledger, r))
          /\ last' = [op |-> "commit_swap", who |-> sender, hash |-> commitment_hash,
                      deposit |-> deposit_amount, res |-> r.res, at |-> now]
    /\ now' = now

GetQuote(amount_in, route, replies) ==
    /\ Idle
    /\ LET r == get_quote(Ledger, amount_in, route, replies)
       IN /\ Install(Invoke(Ledger, r))
          /\ last' = [op |-> "get_quote", amount_in |-> amount_in, route |-> route,
                      replies |-> replies, res |-> r.res, out |-> r.out,
                      fee |-> r.fee, impact |-> r.impact,
                      valid_until |-> now + QuoteValidity, at |-> now]
    /\ now' = now

RegisterPool(caller, pool) ==
    /\ Idle
    /\ LET r == register_pool(Ledger, now, caller, pool)
       IN /\ Install(Invoke(Ledger, r))
          /\ last' = [op |-> "register_pool", who |-> caller, pool |-> pool,
                      res |-> r.res, at |-> now]
    /\ now' = now

Pause(caller) ==
    /\ Idle
    /\ LET r == pause(Ledger, now, caller)
       IN /\ Install(Invoke(Ledger, r))
          /\ last' = [op |-> "pause", who |-> caller, res |-> r.res, at |-> now]
    /\ now' = now

Unpause(caller) ==
    /\ Idle
    /\ LET r == unpause(Ledger, now, caller)
       IN /\ Install(Invoke(Ledger, r))
          /\ last' = [op |-> "unpause", who |-> caller, res |-> r.res, at |-> now]
    /\ now' = now

MigrateToMultisig(caller, signers, threshold, proposal_ttl, guard) ==
    /\ last = NoCall
    /\ LET r == migrate_to_multisig(Ledger, now, caller, signers, threshold,
                                    proposal_ttl, guard)
       IN /\ Install(Invoke(Ledger, r))
          /\ last' = [op |-> "migrate_to_multisig", who |-> caller,
                      signers |-> signers, threshold |-> threshold,
                      res |-> r.res, at |-> now]
    /\ now' = now

Propose(signer, action) ==
    /\ last = NoCall
    /\ proposalCounter < MaxProposals
    /\ LET r == router_propose(Ledger, now, signer, action)
       IN /\ Install(Invoke(Ledger, r))
          /\ last' = [op |-> "propose", who |-> signer, action |-> action,
                      id |-> r.out, res |-> r.res, at |-> now]
    /\ now' = now

ApproveProposal(signer, proposal_id) ==
    /\ last = NoCall
    /\ LET r == router_approve_proposal(Ledger, now, signer, proposal_id)
       IN /\ Install(Invoke(Ledger, r))
          /\ last' = [op |-> "approve_proposal", who |-> signer, id |-> proposal_id,
                      res |-> r.res, at |-> now]
    /\ now' = now

ExecuteProposal(proposal_id) ==
    /\ last = NoCall
    /\ LET r == router_execute_proposal(Ledger, now, proposal_id)
       IN /\ Install(Invoke(Ledger, r))
          /\ last' = [op |-> "execute_proposal", id |-> proposal_id,
                      res |-> r.res, at |-> now]
    /\ now' = now

CancelProposal(signer, proposal_id) ==
    /\ last = NoCall
    /\ LET r == router_cancel_proposal(Ledger, now, signer, proposal_id)
       IN /\ Install(Invoke(Ledger, r))
          /\ last' = [op |-> "cancel_proposal", who |-> signer, id |-> proposal_id,
                      res |-> r.res, at |-> now]
    /\ now' = now

\* The log has room for what the call publishes; a failed call publishes
\* nothing.
HasRoom(r) == r.res = "Ok" => Len(r.st.events) <= MaxEvents

SetAdmin(caller, new_admin) ==
    /\ last = NoCall
    /\ LET r == set_admin(Ledger, now, caller, new_admin)
       IN /\ HasRoom(r)
          /\ Install(Invoke(Ledger, r))
          /\ last' = [op |-> "set_admin", who |-> caller, new_admin |-> new_admin,
                      res |-> r.res, at |-> now]
    /\ now' = now

AddToken(caller, info) ==
    /\ last = NoCall
    /\ LET r == add_token(Ledger, now, caller, info)
       IN /\ HasRoom(r)
          /\ Install(Invoke(Ledger, r))
          /\ last' = [op |-> "add_token", who |-> caller, info |-> info,
                      res |-> r.res, at |-> now]
    /\ now' = now

RemoveToken(caller, asset) ==
    /\ last = NoCall
    /\ LET r == remove_token(Ledger, now, caller, asset)
       IN /\ HasRoom(r)
          /\ Install(Invoke(Ledger, r))
          /\ last' = [op |-> "remove_token", who |-> caller, asset |-> asset,
                      res |-> r.res, at |-> now]
    /\ now' = now

UpdateToken(caller, asset, updated) ==
    /\ last = NoCall
    /\ LET r == update_token(Ledger, now, caller, asset, updated)
       IN /\ HasRoom(r)
          /\ Install(Invoke(Ledger, r))
          /\ last' = [op |-> "update_token", who |-> caller, asset |-> asset,
                      info |-> updated, res |-> r.res, at |-> now]
    /\ now' = now

AddTokensBatch(caller, token_list) ==
    /\ last = NoCall
    /\ LET r == add_tokens_batch(Ledger, now, caller, token_list)
       IN /\ HasRoom(r)
          /\ Install(Invoke(Ledger, r))
          /\ last' = [op |-> "add_tokens_batch", who |-> caller,
                      token_list |-> token_list, res |-> r.res, at |-> now]
    /\ now' = now

GuardianPause(caller) ==
    /\ last = NoCall
    /\ LET r == guardian_pause(Ledger, now, caller)
       IN /\ HasRoom(r)
          /\ Install(Invoke(Ledger, r))
          /\ last' = [op |-> "guardian_pause", who |-> caller, res |-> r.res,
                      at |-> now]
    /\ now' = now

ProposeUpgrade(caller, new_wasm_hash, execute_after) ==
    /\ last = NoCall
    /\ LET r == propose_upgrade(Ledger, now, caller, new_wasm_hash, execute_after)
       IN /\ HasRoom(r)
          /\ Install(Invoke(Ledger, r))
          /\ last' = [op |-> "propose_upgrade", who |-> caller,
                      hash |-> new_wasm_hash, execute_after |-> execute_after,
                      res |-> r.res, at |-> now]
    /\ now' = now

ExecuteUpgrade ==
    /\ last = NoCall
    /\ LET r == execute_upgrade(Ledger, now)
       IN /\ HasRoom(r)
          /\ Install(Invoke(Ledger, r))
          /\ last' = [op |-> "execute_upgrade", res |-> r.res, at |-> now]
    /\ now' = now

CancelUpgrade(caller) ==
    /\ last = NoCall
    /\ LET r == cancel_upgrade(Ledger, now, caller)
       IN /\ HasRoom(r)
          /\ Install(Invoke(Ledger, r))
          /\ last' = [op |-> "cancel_upgrade", who |-> caller, res |-> r.res,
                      at |-> now]
    /\ now' = now

\* The result reaches the caller; the host takes the next call.
ConfigureMev(caller, config) ==
    /\ last = NoCall
    /\ LET r == configure_mev(Ledger, now, caller, config)
       IN /\ HasRoom(r)
          /\ Install(Invoke(Ledger, r))
          /\ last' = [op |-> "configure_mev", who |-> caller, config |-> config,
                      res |-> r.res, at |-> now]
    /\ now' = now

SetWhitelist(caller, address, whitelisted) ==
    /\ last = NoCall
    /\ LET r == set_whitelist(Ledger, now, caller, address, whitelisted)
       IN /\ HasRoom(r)
          /\ Install(Invoke(Ledger, r))
          /\ last' = [op |-> "set_whitelist", who |-> caller, address |-> address,
                      whitelisted |-> whitelisted, res |-> r.res, at |-> now]
    /\ now' = now

\* A call of initialize by the deployer, with or without the signer set.
Initialize(new_admin, fee_rate, signers, threshold, proposal_ttl) ==
    /\ last = NoCall
    /\ LET r == initialize(Ledger, now, new_admin, fee_rate, Treasury, signers,
                           threshold, proposal_ttl, None, None)
       IN /\ HasRoom(r)
          /\ Install(Invoke(Ledger, r))
          /\ last' = [op |-> "initialize", who |-> new_admin, fee_rate |-> fee_rate,
                      res |-> r.res, at |-> now]
    /\ now' = now

Deliver ==
    /\ last # NoCall
    /\ last' = NoCall
    /\ UNCHANGED <<now, paused, feeRate, pools, tokens, tokenCount, mev, whitelist,
                   commitments, swapCount, windowStart, nonce, balances, events,
                   adminVars>>

\* The ledger closes: the sequence number advances.
Tick ==
    /\ last = NoCall
    /\ now < MaxTick
    /\ now' = now + 1
    /\ UNCHANGED <<paused, feeRate, pools, tokens, tokenCount, mev, whitelist,
                   commitments, swapCount, windowStart, nonce, balances, events,
                   adminVars, last>>

\* Ledgers close until the sequence number is `ledger`.
CloseUntil(ledger) ==
    /\ last = NoCall
    /\ ledger > now
    /\ now' = ledger
    /\ UNCHANGED <<paused, feeRate, pools, tokens, tokenCount, mev, whitelist,
                   commitments, swapCount, windowStart, nonce, balances, events,
                   adminVars, last>>

\* Temporary storage: an entry whose TTL (commit_window_ledgers from the
\* commit) has run out is dropped by the host.
ExpireCommitment(hash) ==
    /\ last = NoCall
    /\ hash \in DOMAIN commitments
    /\ now > commitments[hash].expires_at
    /\ commitments' = remove_commitment(commitments, hash)
    /\ UNCHANGED <<now, paused, feeRate, pools, tokens, tokenCount, mev, whitelist,
                   swapCount, windowStart, nonce, balances, events,
                   adminVars, last>>

\* Temporary storage: the window-start entry of a sender, written with a TTL
\* of rate_limit_window, is dropped by the host once the TTL has run out; it
\* then reads as 0.  (The count entry is written no earlier and is read only
\* inside a live window, so its own eviction is never observed.)
ExpireRateLimit(sender) ==
    /\ last = NoCall
    /\ mev # None
    /\ windowStart[sender] > 0
    /\ now > windowStart[sender] + mev[1].rate_limit_window
    /\ windowStart' = [windowStart EXCEPT ![sender] = 0]
    /\ UNCHANGED <<now, paused, feeRate, pools, tokens, tokenCount, mev, whitelist,
                   commitments, swapCount, nonce, balances, events,
                   adminVars, last>>

\* ------------------------------------------------------------ initial states

InitialBalance == 2000
PoolLiquidity == 1000
TestFeeRate == 30

\* The assets of a set in the order they were added.
Listed(assets) ==
    CHOOSE l \in [1..Cardinality(assets) -> assets] :
        \A a \in assets : \E i \in DOMAIN l : l[i] = a

\* The contract after initialize and register_pool(Pool1), with the given
\* fee rate, MevConfig (configure_mev), whitelist (set_whitelist) and
\* allowlist (add_token).  events holds what is published from here on.
\* Alice holds TOK, Bob holds none.
Deployed(fee_rate, mev_config, whitelisted, allowed) ==
    /\ now = 0
    /\ paused = FALSE
    /\ feeRate = fee_rate
    /\ pools = {Pool1}
    /\ tokens = [a \in allowed |-> TokenInfo(a, "Community")]
    /\ tokenCount = Cardinality(allowed)
    /\ mev = mev_config
    /\ whitelist = whitelisted
    /\ commitments = << >>
    /\ swapCount = [a \in Senders |-> 0]
    /\ windowStart = [a \in Senders |-> 0]
    /\ nonce = [a \in Senders |-> 0]
    /\ balances = [h \in Holders |->
                      IF h = Alice THEN InitialBalance
                      ELSE IF h = Pool1 THEN PoolLiquidity ELSE 0]
    /\ events = << >>
    /\ admin = Some(Admin)
    /\ feeTo = Treasury
    /\ poolCount = 1
    /\ multisig = FALSE
    /\ governance = None
    /\ guardian = None
    /\ proposalCounter = 0
    /\ proposals = << >>
    /\ version = None
    /\ migrations = {}
    /\ catIndex = [c \in TokenCategory |->
                      IF c = "Community" THEN Listed(allowed) ELSE << >>]
    /\ pendingUpgrade = None
    /\ versionHistory = << >>
    /\ last = NoCall

\* ------------------------------------------- the engine without a MevConfig

TestAmount == 1000

\* The caller's bounds around the outputs 988 (one hop) and 978 (two hops)
\* of MockAmmPool at 30 bps.
GuardCalls ==
    { <<[swap_params_for(make_route(TOK, Pool1, Len(kinds), est), TestAmount, min_out,
                         FarDeadline)
           EXCEPT !.max_price_impact_bps = impact,
                  !.max_execution_spread_bps = spread],
        FairPool(kinds)>> :
        kinds \in {<<"p99">>, <<"par">>, <<"p99", "p99">>},
        est \in {0, 1000}, min_out \in {0, 988, 989},
        impact \in {0, 4, 5}, spread \in {0, 119, 120} }

\* The time gate at every deadline and not-before of the explored ticks.
TimeCalls ==
    { <<[swap_params_for(make_route(TOK, Pool1, 1, 0), TestAmount, 0, deadline)
           EXCEPT !.not_before = not_before],
        FairPool(<<"p99">>)>> :
        deadline \in 0..MaxTick, not_before \in 0..MaxTick }

\* What a hop's get_rsrvs answers before and after the trade.
ReserveCases ==
    { <<SteadyReserves, TradedReserves>>,        \* one up, one down
      <<SteadyReserves, Some(<<6, 6>>)>>,        \* both up
      <<SteadyReserves, Some(<<4, 4>>)>>,        \* both down
      <<SteadyReserves, Some(<<6, 5>>)>>,        \* one up, one unchanged
      <<SteadyReserves, None>>,                  \* the second call fails
      <<None, Some(<<6, 6>>)>>,                  \* the first call fails
      <<Some(<<0, 0>>), Some(<<1, 1>>)>> }       \* an empty pool filled up

ReserveCalls ==
    { <<swap_params_for(make_route(TOK, Pool1, Len(cases), 0), TestAmount, 0,
                        FarDeadline),
        Replies([i \in 1..Len(cases) |-> cases[i][1]],
                [i \in 1..Len(cases) |-> "p99"],
                [i \in 1..Len(cases) |-> cases[i][2]])>> :
        cases \in {<<c>> : c \in ReserveCases}
                 \cup {<<c, d>> : c \in ReserveCases, d \in ReserveCases} }

EngineCalls == GuardCalls \cup TimeCalls \cup ReserveCalls

Init == Deployed(TestFeeRate, None, {}, {})

Next ==
    \/ \E c \in EngineCalls : ExecuteSwap(Alice, c[1], c[2])
    \/ Tick
    \/ Deliver

Spec == Init /\ [][Next]_vars

\* ------------------------------------------------ the engine under a MevConfig

MevTestConfig ==
    [commit_threshold |-> TestAmount, commit_window_ledgers |-> 1,
     max_swaps_per_window |-> 2, rate_limit_window |-> 2,
     high_impact_threshold_bps |-> ImpactPerHop,
     price_freshness_threshold_bps |-> 0]

SmallAmount == TestAmount \div 2
Salts == {1, 2}

BaseParams(asset, amount) ==
    swap_params_for(make_route(asset, Pool1, 1, 0), amount, 0, FarDeadline)

\* Swaps below commit_threshold, one for every way out of execute_swap, and
\* swaps at and above it.
SmallCalls ==
    LET base == BaseParams(TOK, SmallAmount)
        fair == FairPool(<<"p99">>)
    IN { <<base, fair>>,
         <<[base EXCEPT !.deadline = 0], fair>>,
         <<[base EXCEPT !.not_before = MaxTick], fair>>,
         <<[base EXCEPT !.route = make_route(TOK, Pool1, 0, 0)], FairPool(<< >>)>>,
         <<[base EXCEPT !.route = make_route(TOK, Pool2, 1, 0)], fair>>,
         <<base, FairPool(<<"fail">>)>>,
         <<[base EXCEPT !.max_price_impact_bps = ImpactPerHop - 1], fair>>,
         <<[base EXCEPT !.route = make_route(TOK, Pool1, 1, TestAmount),
                        !.max_execution_spread_bps = 1], fair>>,
         <<[base EXCEPT !.min_amount_out = SmallAmount], fair>>,
         <<base, Replies(<<SteadyReserves>>, <<"p99">>, <<Some(<<6, 6>>)>>)>>,
         <<BaseParams(TOK, TestAmount), fair>>,
         <<BaseParams(TOK, TestAmount + 1), fair>> }

\* Reveals of a swap of exactly commit_threshold: what the hash covers is the
\* same in all of them, the route and the pools' behaviour differ.
RevealCalls ==
    LET base == BaseParams(TOK, TestAmount)
    IN { <<base, FairPool(<<"p99">>)>>,
         <<base, FairPool(<<"fail">>)>>,
         <<base, Replies(<<SteadyReserves>>, <<"p99">>, <<Some(<<6, 6>>)>>)>>,
         <<[base EXCEPT !.route = make_route(TOK, Pool1, 2, 0)],
           FairPool(<<"p99", "p99">>)>> }

CommitHashes == { CommitHash(TestAmount, 0, FarDeadline, salt) : salt \in Salts }

\* Alice makes every call; Bob, who holds nothing, the plain ones.  Each
\* commits a hash of their own; either may reveal either.
MevSwaps ==
    {<<Alice, c>> : c \in SmallCalls}
        \cup {<<Bob, <<BaseParams(TOK, SmallAmount), FairPool(<<"p99">>)>>>>}
MevReveals ==
    {<<Alice, c>> : c \in RevealCalls}
        \cup {<<Bob, <<BaseParams(TOK, TestAmount), FairPool(<<"p99">>)>>>>}
MevCommits ==
    { <<Alice, CommitHash(TestAmount, 0, FarDeadline, 1), TestAmount>>,
      <<Bob, CommitHash(TestAmount, 0, FarDeadline, 2), TestAmount>>,
      <<Alice, CommitHash(TestAmount, 0, FarDeadline, 1), 0>> }

InitMev == Deployed(TestFeeRate, Some(MevTestConfig), {}, {})

NextMev ==
    \/ \E c \in MevSwaps : ExecuteSwap(c[1], c[2][1], c[2][2])
    \/ \E c \in MevCommits : CommitSwap(c[1], c[2], c[3])
    \/ \E c \in MevReveals, salt \in Salts :
           RevealAndExecute(c[1], c[2][1], salt, c[2][2])
    \/ \E h \in DOMAIN commitments : ExpireCommitment(h)
    \/ \E a \in Senders : ExpireRateLimit(a)
    \/ Tick
    \/ Deliver

SpecMev == InitMev /\ [][NextMev]_vars

\* ------------------------------------------------------- the token allowlist

\* TOK is allowlisted, XLM is not.
AllowRoutes ==
    { make_route(asset, Pool1, 1, 0) : asset \in {TOK, XLM} }
        \cup { [hops |-> <<Hop(TOK, XLM, Pool1), Hop(XLM, TOK, Pool1)>>,
                estimated_output |-> 0] }
AllowParams ==
    { swap_params_for(route, amount, 0, FarDeadline) :
        route \in AllowRoutes, amount \in {SmallAmount, TestAmount} }

InitAllow == Deployed(TestFeeRate, Some(MevTestConfig), {}, {TOK})

NextAllow ==
    \/ \E route \in AllowRoutes :
           GetQuote(TestAmount, route, [i \in 1..Len(route.hops) |-> "p99"])
    \/ \E p \in AllowParams :
           ExecuteSwap(Alice, p, FairPool([i \in 1..Len(p.route.hops) |-> "p99"]))
    \/ \E h \in CommitHashes : CommitSwap(Alice, h, TestAmount)
    \/ \E p \in AllowParams, salt \in Salts :
           RevealAndExecute(Alice, p, salt,
                            FairPool([i \in 1..Len(p.route.hops) |-> "p99"]))
    \/ \E h \in DOMAIN commitments : ExpireCommitment(h)
    \/ Tick
    \/ Deliver

SpecAllow == InitAllow /\ [][NextAllow]_vars

\* ------------------------------------------------------------ the rate limit

\* Bob is whitelisted.  XLM moves no balance, so neither sender runs dry.
RateCalls ==
    { <<[BaseParams(XLM, SmallAmount) EXCEPT !.min_amount_out = min_out],
        FairPool(<<"p99">>)>> : min_out \in {0, SmallAmount} }

InitRate == Deployed(TestFeeRate, Some(MevTestConfig), {Bob}, {})

NextRate ==
    \/ \E a \in Senders, c \in RateCalls : ExecuteSwap(a, c[1], c[2])
    \/ \E a \in Senders : ExpireRateLimit(a)
    \/ Tick
    \/ Deliver

SpecRate == InitRate /\ [][NextRate]_vars

\* ---------------------------------------------------------- pause and unpause

\* A swap below commit_threshold through Pool1 and one through Pool2, which
\* is registered only by register_pool.
PauseSwaps ==
    { <<BaseParams(TOK, SmallAmount), FairPool(<<"p99">>)>>,
      <<[BaseParams(TOK, SmallAmount) EXCEPT !.route = make_route(TOK, Pool2, 1, 0)],
        FairPool(<<"p99">>)>> }
PauseCallers == {Admin, Alice}

InitPause == Deployed(TestFeeRate, Some(MevTestConfig), {}, {})

NextPause ==
    \/ \E c \in PauseSwaps : ExecuteSwap(Alice, c[1], c[2])
    \/ CommitSwap(Alice, CommitHash(TestAmount, 0, FarDeadline, 1), TestAmount)
    \/ RevealAndExecute(Alice, BaseParams(TOK, TestAmount), 1, FairPool(<<"p99">>))
    \/ \E c \in PauseSwaps : GetQuote(c[1].amount_in, c[1].route, c[2].swap)
    \/ \E c \in PauseCallers : RegisterPool(c, Pool2)
    \/ \E c \in PauseCallers : Pause(c)
    \/ \E c \in PauseCallers : Unpause(c)
    \/ \E h \in DOMAIN commitments : ExpireCommitment(h)
    \/ ExpireRateLimit(Alice)
    \/ Tick
    \/ Deliver

SpecPause == InitPause /\ [][NextPause]_vars

\* ---------------------------------------------------------------- governance

\* The ledger of a contract that was just constructed: nothing is stored.
Blank ==
    [paused |-> FALSE, feeRate |-> 0, pools |-> {}, tokens |-> << >>, tokenCount |-> 0,
     mev |-> None, whitelist |-> {}, commitments |-> << >>,
     swapCount |-> [a \in Senders |-> 0], windowStart |-> [a \in Senders |-> 0],
     nonce |-> [a \in Senders |-> 0], balances |-> [h \in Holders |-> 0],
     events |-> << >>, admin |-> None, feeTo |-> None, poolCount |-> 0,
     multisig |-> FALSE, governance |-> None, guardian |-> None,
     proposalCounter |-> 0, proposals |-> << >>, version |-> None, migrations |-> {},
     catIndex |-> [c \in TokenCategory |-> << >>], pendingUpgrade |-> None,
     versionHistory |-> << >>]

\* The ledger holds exactly S.
Stored(S) ==
    /\ paused = S.paused
    /\ feeRate = S.feeRate
    /\ pools = S.pools
    /\ tokens = S.tokens
    /\ tokenCount = S.tokenCount
    /\ mev = S.mev
    /\ whitelist = S.whitelist
    /\ commitments = S.commitments
    /\ swapCount = S.swapCount
    /\ windowStart = S.windowStart
    /\ nonce = S.nonce
    /\ balances = S.balances
    /\ events = S.events
    /\ admin = S.admin
    /\ feeTo = S.feeTo
    /\ poolCount = S.poolCount
    /\ multisig = S.multisig
    /\ governance = S.governance
    /\ guardian = S.guardian
    /\ proposalCounter = S.proposalCounter
    /\ proposals = S.proposals
    /\ version = S.version
    /\ migrations = S.migrations
    /\ catIndex = S.catIndex
    /\ pendingUpgrade = S.pendingUpgrade
    /\ versionHistory = S.versionHistory

\* The contract after a successful initialize with the given signers and
\* threshold (Options).
Initialized(signers, threshold, proposal_ttl) ==
    LET r == initialize(Blank, 0, Admin, TestFeeRate, Treasury, signers, threshold,
                        proposal_ttl, None, None)
    IN /\ r.res = "Ok"
       /\ Stored(r.st)
       /\ now = 0
       /\ last = NoCall

GovTtl == 2
Signers == {Alice, Bob, Carol}
SetFee == ProposalAction("SetFeeRate", 50)

\* 2-of-3 as in the tests, and 1-of-2 with Carol an outsider.
GovSetups == { <<<<Alice, Bob, Carol>>, 2>>, <<<<Alice, Bob>>, 1>> }

\* A fee change, a fee change that dispatch_action rejects, and a threshold
\* change, under which a pending proposal can come to hold enough approvals.
GovActions ==
    { SetFee, ProposalAction("SetFeeRate", MaxFeeRate + 1),
      ProposalAction("ChangeThreshold", 1) }

GovProposals == {<<Alice, a>> : a \in GovActions} \cup {<<Carol, SetFee>>}

InitGov == \E g \in GovSetups : Initialized(Some(g[1]), Some(g[2]), Some(GovTtl))

NextGov ==
    \/ \E p \in GovProposals : Propose(p[1], p[2])
    \/ \E s \in Signers, id \in 1..MaxProposals : ApproveProposal(s, id)
    \/ \E id \in 1..MaxProposals : ExecuteProposal(id)
    \/ \E s \in Signers, id \in 1..MaxProposals : CancelProposal(s, id)
    \/ Deliver

SpecGov == InitGov /\ [][NextGov]_vars

\* ---------------------------------------------------------- proposal expiry

InitExpiry == Initialized(Some(<<Alice, Bob, Carol>>), Some(2), Some(GovTtl))

NextExpiry ==
    \/ Propose(Alice, SetFee)
    \/ Propose(Bob, ProposalAction("ChangeThreshold", 1))
    \/ \E s \in {Alice, Bob}, id \in 1..MaxProposals : ApproveProposal(s, id)
    \/ \E id \in 1..MaxProposals : ExecuteProposal(id)
    \/ Tick
    \/ Deliver

SpecExpiry == InitExpiry /\ [][NextExpiry]_vars

\* ------------------------------------------------- actions that fail dispatch

\* Ten signers, of whom Alice, Bob and Carol make calls.
Council == <<Alice, Bob, Carol, "s4", "s5", "s6", "s7", "s8", "s9", "s10">>

\* 2-of-3, 2-of-2 (no signer can be removed), 1-of-2 (propose dispatches)
\* and 2-of-10 (no signer can be added).
DispatchSetups ==
    { <<<<Alice, Bob, Carol>>, 2>>, <<<<Alice, Bob>>, 2>>, <<<<Alice, Bob>>, 1>>,
      <<Council, 2>> }

\* One action of every kind dispatch_action can reject, and a fee change.
DispatchActions ==
    { SetFee, ProposalAction("SetFeeRate", MaxFeeRate + 1),
      ProposalAction("ChangeThreshold", 11), ProposalAction("AddSigner", "s11"),
      ProposalAction("RemoveSigner", Bob), ProposalAction("Upgrade", ZeroHash) }

InitDispatch ==
    \E g \in DispatchSetups : Initialized(Some(g[1]), Some(g[2]), Some(GovTtl))

NextDispatch ==
    \/ \E a \in DispatchActions : Propose(Alice, a)
    \/ \E s \in {Alice, Bob}, id \in 1..MaxProposals : ApproveProposal(s, id)
    \/ \E id \in 1..MaxProposals : ExecuteProposal(id)
    \/ \E id \in 1..MaxProposals : CancelProposal(Alice, id)
    \/ Deliver

SpecDispatch == InitDispatch /\ [][NextDispatch]_vars

\* ------------------------------------------------- signers and the threshold

\* What initialize and migrate_to_multisig are handed: well-formed lists, an
\* empty one, one naming an address twice, one of eleven, and thresholds of 0,
\* within and past the length.
SignerLists ==
    { << >>, <<Alice, Bob>>, <<Alice, Bob, Carol>>, <<Alice, Bob, Alice>>, Council,
      Council \o <<"s11">> }
Thresholds == {0, 1, 3, 11}

SignerActions ==
    { ProposalAction("AddSigner", Bob), ProposalAction("AddSigner", "s11"),
      ProposalAction("RemoveSigner", Bob), ProposalAction("RemoveSigner", "s11"),
      ProposalAction("ChangeThreshold", 0), ProposalAction("ChangeThreshold", 2),
      ProposalAction("ChangeThreshold", 4) }

\* initialize either installs the signers or leaves the admin in charge,
\* who may migrate later.
InitSigners ==
    \/ Initialized(None, None, None)
    \/ \E signers \in SignerLists, threshold \in Thresholds :
           Initialized(Some(signers), Some(threshold), Some(GovTtl))

NextSigners ==
    \/ \E caller \in {Admin, Alice}, signers \in SignerLists, threshold \in Thresholds :
           MigrateToMultisig(caller, signers, threshold, GovTtl, None)
    \/ \E a \in SignerActions : Propose(Alice, a)
    \/ \E s \in {Bob, Carol}, id \in 1..MaxProposals : ApproveProposal(s, id)
    \/ Deliver

SpecSigners == InitSigners /\ [][NextSigners]_vars

\* ------------------------------------ single-admin and multi-sig entry points

\* The contract after a successful initialize with the given signers,
\* threshold, proposal_ttl, guardian and initial_wasm_hash (Options).
InitializedWith(signers, threshold, proposal_ttl, guard, wasm) ==
    LET r == initialize(Blank, 0, Admin, TestFeeRate, Treasury, signers, threshold,
                        proposal_ttl, guard, wasm)
    IN /\ r.res = "Ok"
       /\ Stored(r.st)
       /\ now = 0
       /\ last = NoCall

ModeCallers == {Admin, Alice}
ModeTokens ==
    { TokenInfo(TOK, "Community"), TokenInfo(XLM, "Native") }
ModeActions ==
    { ProposalAction("Pause", 0), ProposalAction("Unpause", 0),
      ProposalAction("RegisterPool", Pool2) }

\* The contract starts under its admin, or under Alice and Bob (2-of-2) with
\* Carol as guardian; the admin may migrate to that setup later.
InitMode ==
    \/ InitializedWith(None, None, None, None, None)
    \/ InitializedWith(Some(<<Alice, Bob>>), Some(2), Some(GovTtl), Some(Carol), None)

NextMode ==
    \/ \E caller \in ModeCallers : SetAdmin(caller, Alice)
    \/ \E caller \in ModeCallers : RegisterPool(caller, Pool2)
    \/ \E caller \in ModeCallers : Pause(caller)
    \/ \E caller \in ModeCallers : Unpause(caller)
    \/ \E caller \in ModeCallers, info \in ModeTokens : AddToken(caller, info)
    \/ \E caller \in ModeCallers : RemoveToken(caller, XLM)
    \/ \E caller \in ModeCallers :
           UpdateToken(caller, XLM, TokenInfo(XLM, "Stablecoin"))
    \/ \E caller \in ModeCallers :
           AddTokensBatch(caller, <<TokenInfo(TOK, "Community"),
                                    TokenInfo(XLM, "Native")>>)
    \/ \E caller \in ModeCallers :
           MigrateToMultisig(caller, <<Alice, Carol>>, 1, GovTtl, Some(Bob))
    \/ \E caller \in {Carol, Bob, Alice} : GuardianPause(caller)
    \/ \E a \in ModeActions : Propose(Alice, a)
    \/ \E id \in 1..MaxProposals : ApproveProposal(Bob, id)
    \/ Deliver

SpecMode == InitMode /\ [][NextMode]_vars

\* -------------------------------------------------------------------- upgrades

\* The ledgers at which calls arrive: the one after initialize, the last two
\* of the minimum delay of an upgrade proposed at ledger 0 or 1, and one past
\* the delay of an upgrade proposed at those.
UpgradeLedgers ==
    {1, MinDelayLedgers, MinDelayLedgers + 1, 2 * MinDelayLedgers + 1}
WasmHashes == {ZeroHash, 1, 2}
\* execute_after as requested: before and after the end of the minimum delay.
RequestedAfter == {0, MinDelayLedgers + 1}
UpgradeCallers == {Admin, Alice}

\* The contract after initialize by the single admin, with or without an
\* initial_wasm_hash; events holds what is published from here on.
InitUpgrade ==
    \E wasm \in {None, Some(1)} :
        LET r == initialize(Blank, 0, Admin, TestFeeRate, Treasury, None, None, None,
                            None, wasm)
        IN /\ r.res = "Ok"
           /\ Stored([r.st EXCEPT !.events = << >>])
           /\ now = 0
           /\ last = NoCall

\* The time-locked path of the single admin.
NextUpgrade ==
    \/ \E caller \in UpgradeCallers, h \in WasmHashes, after \in RequestedAfter :
           ProposeUpgrade(caller, h, after)
    \/ ExecuteUpgrade
    \/ \E caller \in UpgradeCallers : CancelUpgrade(caller)
    \/ Pause(Admin)
    \/ Unpause(Admin)
    \/ \E ledger \in UpgradeLedgers : CloseUntil(ledger)
    \/ Deliver

SpecUpgrade == InitUpgrade /\ [][NextUpgrade]_vars

\* The time-locked path and the governance path side by side: the admin
\* proposes an upgrade and may hand the contract over to Alice and Bob
\* (1-of-2), whose Upgrade proposals are dispatched as they are proposed.
NextHandover ==
    \/ \E after \in RequestedAfter : ProposeUpgrade(Admin, 2, after)
    \/ ExecuteUpgrade
    \/ MigrateToMultisig(Admin, <<Alice, Bob>>, 1, GovTtl, None)
    \/ \E h \in WasmHashes : Propose(Alice, ProposalAction("Upgrade", h))
    \/ \E ledger \in UpgradeLedgers : CloseUntil(ledger)
    \/ Deliver

SpecHandover == InitUpgrade /\ [][NextHandover]_vars

\* ------------------------------------------------------------- token allowlist

TokenAssets == {TOK, XLM}
\* The TokenInfo records handed to the allowlist: each asset under two
\* categories.
TokenInfos == {TokenInfo(a, c) : a \in TokenAssets, c \in {"Community", "Stablecoin"}}
\* Batches: two new assets, and one that names an asset twice.
TokenBatches ==
    { <<TokenInfo(TOK, "Community"), TokenInfo(XLM, "Stablecoin")>>,
      <<TokenInfo(XLM, "Community"), TokenInfo(XLM, "Stablecoin")>> }

\* The allowlist under the single admin; events holds what is published from
\* here on.
InitTokens ==
    LET r == initialize(Blank, 0, Admin, TestFeeRate, Treasury, None, None, None,
                        None, None)
    IN /\ r.res = "Ok"
       /\ Stored([r.st EXCEPT !.events = << >>])
       /\ now = 0
       /\ last = NoCall

NextTokens ==
    \/ \E caller \in {Admin, Alice}, info \in TokenInfos : AddToken(caller, info)
    \/ \E asset \in TokenAssets : RemoveToken(Admin, asset)
    \/ \E asset \in TokenAssets, updated \in TokenInfos :
           UpdateToken(Admin, asset, updated)
    \/ \E token_list \in TokenBatches : AddTokensBatch(Admin, token_list)
    \/ Deliver

SpecTokens == InitTokens /\ [][NextTokens]_vars

\* ------------------------------------------------- the bound on the fee rate

\* Fee rates at, around and past the bound.
BoundaryRates == {TestFeeRate, MaxFeeRate, MaxFeeRate + 1}

\* The deployed, not yet initialized contract.
InitFees ==
    /\ Stored(Blank)
    /\ now = 0
    /\ last = NoCall

\* initialize under an admin or under Alice and Bob (1- or 2-of-2), then fee
\* changes by proposal.
NextFees ==
    \/ \E rate \in BoundaryRates : Initialize(Admin, rate, None, None, None)
    \/ \E rate \in BoundaryRates, k \in {1, 2} :
           Initialize(Admin, rate, Some(<<Alice, Bob>>), Some(k), Some(GovTtl))
    \/ \E rate \in BoundaryRates : Propose(Alice, ProposalAction("SetFeeRate", rate))
    \/ \E id \in 1..MaxProposals : ApproveProposal(Bob, id)
    \/ \E id \in 1..MaxProposals : ExecuteProposal(id)
    \/ Deliver

SpecFees == InitFees /\ [][NextFees]_vars

\* ------------------------------------------------- the order of the aborts

\* Routes of no hop, one hop, two hops and one hop too many, through the
\* registered Pool1, the unregistered Pool2, or one after the other.
OrderRoutes ==
    { [hops |-> hops, estimated_output |-> TestAmount] :
        hops \in { << >>, <<Hop(XLM, XLM, Pool1)>>, <<Hop(XLM, XLM, Pool2)>>,
                   <<Hop(XLM, XLM, Pool1), Hop(XLM, XLM, Pool2)>>,
                   <<Hop(XLM, XLM, Pool2), Hop(XLM, XLM, Pool1)>>,
                   [i \in 1..(MaxHops + 1) |-> Hop(XLM, XLM, Pool1)] } }

\* Pools that all answer, or whose first or last swap call fails, and whose
\* reserves afterwards moved apart or both rose.
OrderReplies(n) ==
    { Replies([i \in 1..n |-> SteadyReserves], kinds, [i \in 1..n |-> post]) :
        kinds \in { [i \in 1..n |-> "p99"],
                    [i \in 1..n |-> IF i = 1 THEN "fail" ELSE "p99"],
                    [i \in 1..n |-> IF i = n THEN "fail" ELSE "p99"] },
        post \in {TradedReserves, Some(<<6, 6>>)} }

\* Every bound of SwapParams either out of the way or violated by the call.
OrderParams ==
    { [swap_params_for(route, SmallAmount, min_out, deadline) EXCEPT
           !.not_before = not_before, !.max_price_impact_bps = impact_bps,
           !.max_execution_spread_bps = spread_bps] :
        route \in OrderRoutes, min_out \in {0, TestAmount},
        deadline \in {0, FarDeadline}, not_before \in {0, FarDeadline},
        impact_bps \in {0, 1}, spread_bps \in {0, 1} }

InitOrder == Deployed(TestFeeRate, Some(MevTestConfig), {}, {})

NextOrder ==
    \/ \E p \in OrderParams :
           \E env \in OrderReplies(Len(p.route.hops)) : ExecuteSwap(Alice, p, env)
    \/ Tick
    \/ Deliver

SpecOrder == InitOrder /\ [][NextOrder]_vars

\* ------------------------------------------------- upgrades across set_admin

\* The admin proposes an upgrade and hands the contract to Alice; either of
\* them may try to propose, cancel or hand over.
NextSuccession ==
    \/ \E caller \in UpgradeCallers, h \in {1, 2} : ProposeUpgrade(caller, h, 0)
    \/ \E caller \in UpgradeCallers, new_admin \in UpgradeCallers :
           SetAdmin(caller, new_admin)
    \/ \E caller \in UpgradeCallers : CancelUpgrade(caller)
    \/ ExecuteUpgrade
    \/ \E ledger \in UpgradeLedgers : CloseUntil(ledger)
    \/ Deliver

SpecSuccession == InitUpgrade /\ [][NextSuccession]_vars

\* ------------------------------------------------- one hash, two senders

\* Alice and Bob commit the same hashes and reveal the swap they cover.
NextContest ==
    \/ \E a \in Senders, h \in CommitHashes : CommitSwap(a, h, TestAmount)
    \/ \E a \in Senders, salt \in Salts :
           RevealAndExecute(a, BaseParams(TOK, TestAmount), salt, FairPool(<<"p99">>))
    \/ \E h \in DOMAIN commitments : ExpireCommitment(h)
    \/ Tick
    \/ Deliver

SpecContest == InitMev /\ [][NextContest]_vars

\* ------------------------------------------------- approvals of a removed signer

RemovalActions == {SetFee, ProposalAction("RemoveSigner", Bob)}

\* Alice, Bob and Carol under threshold 2; Bob may be voted out while a
\* proposal he approved is pending.
InitRemoval == Initialized(Some(<<Alice, Bob, Carol>>), Some(2), Some(GovTtl))

NextRemoval ==
    \/ \E s \in {Alice, Bob}, a \in RemovalActions : Propose(s, a)
    \/ \E s \in Signers, id \in 1..MaxProposals : ApproveProposal(s, id)
    \/ \E id \in 1..MaxProposals : ExecuteProposal(id)
    \/ Deliver

SpecRemoval == InitRemoval /\ [][NextRemoval]_vars

\* ------------------------------------------------- MEV settings and the mode

\* The test configuration, and one that asks for a commitment from 1 up and
\* allows a single swap per window.
MevConfigs ==
    { MevTestConfig,
      [MevTestConfig EXCEPT !.commit_threshold = 1, !.max_swaps_per_window = 1] }

\* The admin, or anyone else, sets the MEV configuration and the whitelist,
\* before and after the contract is handed to its signers.
NextSettings ==
    \/ \E caller \in {Admin, Alice}, config \in MevConfigs : ConfigureMev(caller, config)
    \/ \E caller \in {Admin, Alice}, whitelisted \in BOOLEAN :
           SetWhitelist(caller, Bob, whitelisted)
    \/ MigrateToMultisig(Admin, <<Alice, Carol>>, 2, GovTtl, None)
    \/ \E a \in ModeActions : Propose(Alice, a)
    \/ \E id \in 1..MaxProposals : ApproveProposal(Carol, id)
    \/ Deliver

SpecSettings == InitMode /\ [][NextSettings]_vars

\* ------------------------------------------------- amounts, fees and outputs

FeeRates == {0, 1, TestFeeRate, MaxFeeRate}
Amounts == {-1, 0, 1, 7, 100, TestAmount}

\* Pools that take a cut, return their input, return more than their input
\* or return a negative amount, on routes of one to MaxHops hops.
AmountKinds ==
    { <<"p99">>, <<"par">>, <<"gain">>, <<"neg">>,
      <<"p99", "p99">>, <<"p99", "gain">>, <<"gain", "par">>,
      <<"p99", "par", "p99">>, <<"p99", "p99", "p99", "p99">> }

AmountCalls ==
    { <<swap_params_for(make_route(asset, Pool1, Len(kinds), 0), amount, min_out,
                        FarDeadline),
        FairPool(kinds)>> :
        asset \in {TOK, XLM}, kinds \in AmountKinds, amount \in Amounts,
        min_out \in {-2, 0} }

InitAmounts == \E rate \in FeeRates : Deployed(rate, None, {}, {})

\* One swap on the freshly deployed contract, quotes at any time.
NextAmounts ==
    \/ \E c \in AmountCalls : events = << >> /\ ExecuteSwap(Alice, c[1], c[2])
    \/ \E c \in AmountCalls : GetQuote(c[1].amount_in, c[1].route, c[2].swap)
    \/ Deliver

SpecAmounts == InitAmounts /\ [][NextAmounts]_vars

\* =================================================================== claims

SwapOps == {"execute_swap", "reveal_and_execute"}
IsSwapCall == last.op \in SwapOps

\* Results of a swap call that ends before its entry into execute_swap_internal.
BeforeEngine ==
    {"Paused", "TokenNotAllowed", "CommitmentRequired", "CommitmentNotFound",
     "InvalidReveal", "CommitmentExpired"}
\* Results of a swap call that ends before all its hops have executed.
BeforeGuards ==
    BeforeEngine \cup
    {"DeadlineExceeded", "ExecutionTooEarly", "InvalidRoute", "RateLimitExceeded",
     "TransferInTrapped", "PoolNotSupported", "PoolCallFailed"}
GuardErrors == {"PriceImpactTooHigh", "SpreadTooHigh", "SlippageExceeded"}

\* What the pools of a call hand back hop by hop: the last hop's output.
RECURSIVE AdapterOutput(_, _, _)
AdapterOutput(kinds, i, amount) ==
    IF i > Len(kinds) THEN amount
    ELSE AdapterOutput(kinds, i + 1, AdapterReply(kinds[i], amount)[1])

\* The output a call whose hops all executed has to offer: the last hop's
\* output less the protocol fee.
OfferedOutput(call) ==
    LET x == AdapterOutput(call.env.swap, 1, call.p.amount_in)
    IN x - ((x * feeRate) \div BpsDenom)

Max(a, b) == IF a >= b THEN a ELSE b
WithinSlippage(p, out) == out >= p.min_amount_out
WithinImpact(p) ==
    p.max_price_impact_bps > 0 => 5 * Len(p.route.hops) <= p.max_price_impact_bps
WithinSpread(p, out) ==
    (p.max_execution_spread_bps > 0 /\ p.route.estimated_output > 0) =>
        Max(0, ((p.route.estimated_output - out) * 10000) \div p.route.estimated_output)
            <= p.max_execution_spread_bps

\* C1: a successful swap satisfies every bound its caller set (minimum
\* output, equality allowed; price impact of 5 bps per hop; execution
\* spread against the estimate), and a swap whose hops all executed but
\* whose output breaks a bound fails with the error of a bound it breaks.
C1_CallerBoundsHold ==
    IsSwapCall =>
        /\ last.res = "Ok" =>
              /\ WithinSlippage(last.p, last.out)
              /\ WithinImpact(last.p)
              /\ WithinSpread(last.p, last.out)
        /\ last.res \notin BeforeGuards =>
              LET out == OfferedOutput(last)
              IN /\ ~(WithinSlippage(last.p, out) /\ WithinImpact(last.p)
                        /\ WithinSpread(last.p, out))
                    => last.res \in GuardErrors
                 /\ last.res = "SlippageExceeded" => ~WithinSlippage(last.p, out)
                 /\ last.res = "PriceImpactTooHigh" => ~WithinImpact(last.p)
                 /\ last.res = "SpreadTooHigh" => ~WithinSpread(last.p, out)

\* A swap that succeeds with every bound met exactly.
C1_Witness ==
    /\ IsSwapCall
    /\ last.res = "Ok"
    /\ last.out = last.p.min_amount_out
    /\ last.p.max_price_impact_bps = 5 * Len(last.p.route.hops)
    /\ last.p.route.estimated_output > last.out
    /\ last.p.max_execution_spread_bps =
           ((last.p.route.estimated_output - last.out) * 10000)
               \div last.p.route.estimated_output

\* Everything the contract stores or emits.
LedgerVars ==
    <<paused, feeRate, pools, tokens, tokenCount, mev, whitelist, commitments,
      swapCount, windowStart, nonce, balances, events, adminVars>>

RouteOf(call) == IF call.op = "get_quote" THEN call.route ELSE call.p.route
OffAllowlist(route) ==
    \E i \in 1..Len(route.hops) :
        \/ route.hops[i].source \notin DOMAIN tokens
        \/ route.hops[i].destination \notin DOMAIN tokens

\* C3: while the allowlist is non-empty, no get_quote, execute_swap or
\* reveal_and_execute call succeeds on a route with an asset that is not
\* allowlisted, and get_quote and execute_swap fail with TokenNotAllowed.
C3_OnlyAllowlistedRoutes ==
    ( /\ last.op \in SwapOps \cup {"get_quote"}
      /\ tokenCount > 0
      /\ OffAllowlist(RouteOf(last)) )
    => /\ last.res # "Ok"
       /\ last.op \in {"get_quote", "execute_swap"} => last.res = "TokenNotAllowed"

\* The hash a reveal call computes.
HashOf(call) ==
    CommitHash(call.p.amount_in, call.p.min_amount_out, call.p.deadline, call.salt)
LargeSwap(amount_in) == mev # None /\ amount_in >= mev[1].commit_threshold

\* C4: with a MevConfig set, execute_swap with amount_in >= commit_threshold
\* (equality included) fails with CommitmentRequired, and every swap event
\* of that size is published by a reveal_and_execute that consumes a
\* commitment created by the same sender.
C4_LargeSwapsNeedCommitment ==
    [][ /\ (last'.op = "execute_swap" /\ LargeSwap(last'.p.amount_in)
                /\ last'.res \notin {"Paused", "TokenNotAllowed"})
            => last'.res = "CommitmentRequired"
        /\ \A i \in (Len(events) + 1)..Len(events') :
              (events'[i].kind = "swap" /\ LargeSwap(events'[i].data[1])) =>
                  /\ last'.op = "reveal_and_execute"
                  /\ last'.who = events'[i].who
                  /\ HashOf(last') \in DOMAIN commitments
                  /\ commitments[HashOf(last')].sender = last'.who
                  /\ HashOf(last') \notin DOMAIN commitments'
      ]_vars

\* execute_swap is refused at exactly commit_threshold after a swap of that
\* size has gone through.
C4_Witness ==
    /\ last.op = "execute_swap"
    /\ mev # None
    /\ last.p.amount_in = mev[1].commit_threshold
    /\ last.res = "CommitmentRequired"
    /\ \E i \in 1..Len(events) :
           events[i].kind = "swap" /\ LargeSwap(events[i].data[1])

\* The commitment events about hash h in a log; h is consumed when the
\* latest of them is a reveal.
CommitmentEvents(log, h) ==
    {i \in 1..Len(log) : log[i].kind \in {"cmt_new", "cmt_rev"} /\ log[i].data[1] = h}
Consumed(log, h) ==
    \E i \in CommitmentEvents(log, h) :
        /\ log[i].kind = "cmt_rev"
        /\ \A j \in CommitmentEvents(log, h) : j <= i

\* C5: a successful reveal_and_execute leaves no commitment under its hash,
\* and a reveal of a hash whose commitment was consumed, with no commit of
\* that hash since, fails with CommitmentNotFound.
C5_CommitmentSpentOnce ==
    [][ last'.op = "reveal_and_execute" =>
          /\ last'.res = "Ok" => HashOf(last') \notin DOMAIN commitments'
          /\ (Consumed(events, HashOf(last')) /\ ~paused)
                => last'.res = "CommitmentNotFound"
      ]_vars

\* The second reveal of a consumed commitment.
C5_Witness ==
    /\ last.op = "reveal_and_execute"
    /\ last.res = "CommitmentNotFound"
    /\ Consumed(events, HashOf(last))

\* C6: reveal_and_execute runs a swap only on a stored commitment of the
\* same sender that has not expired; a missing hash fails with
\* CommitmentNotFound, another sender's with InvalidReveal, an expired one
\* with CommitmentExpired (CommitmentNotFound once the entry is dropped);
\* a failed reveal runs no swap and leaves the commitments as they were.
C6_RevealChecks ==
    [][ (last'.op = "reveal_and_execute" /\ ~paused) =>
          LET h == HashOf(last')
              stored == h \in DOMAIN commitments
          IN /\ last'.res \notin BeforeEngine =>
                    /\ stored
                    /\ commitments[h].sender = last'.who
                    /\ last'.at <= commitments[h].expires_at
             /\ ~stored => last'.res = "CommitmentNotFound"
             /\ (stored /\ commitments[h].sender # last'.who)
                    => last'.res = "InvalidReveal"
             /\ (stored /\ commitments[h].sender = last'.who
                        /\ last'.at > commitments[h].expires_at)
                    => last'.res = "CommitmentExpired"
             /\ last'.res # "Ok" =>
                    /\ commitments' = commitments
                    /\ events' = events
                    /\ balances' = balances
                    /\ nonce' = nonce
      ]_vars

\* A reveal by the committer after expires_at, the entry still stored.
C6_Witness ==
    /\ last.op = "reveal_and_execute"
    /\ last.res = "CommitmentExpired"
    /\ HashOf(last) \in DOMAIN commitments
    /\ commitments[HashOf(last)].sender = last.who

\* The successful swaps of a sender, oldest first.
SwapsOf(a) == SelectSeq(events, LAMBDA e : e.kind = "swap" /\ e.who = a)

\* The start of the window the k-th swap of a log falls in: the first swap
\* starts a window, and so does every swap no window covers.
RECURSIVE WindowOf(_, _, _)
WindowOf(log, k, W) ==
    IF k = 1 THEN log[1].at
    ELSE LET s == WindowOf(log, k - 1, W)
         IN IF log[k].at < s + W THEN s ELSE log[k].at
SwapsInWindow(log, k, W) ==
    Cardinality({j \in 1..k : WindowOf(log, j, W) = WindowOf(log, k, W)})

\* Results of a swap call that ends before the rate limit is looked at.
BeforeRateLimit ==
    BeforeEngine \cup {"DeadlineExceeded", "ExecutionTooEarly", "InvalidRoute"}

\* C7: for a sender that is not whitelisted, a window started at any tick
\* s >= 0 holds at most max_swaps_per_window successful swaps, and a swap
\* that reaches the rate limit at now < s + rate_limit_window with the
\* window full fails with RateLimitExceeded.
C7_WindowHoldsAtMostMax ==
    mev # None =>
        \A a \in Senders \ whitelist :
            LET log == SwapsOf(a)
                W == mev[1].rate_limit_window
                n == Len(log)
            IN /\ \A k \in 1..n : SwapsInWindow(log, k, W) <= mev[1].max_swaps_per_window
               /\ ( /\ IsSwapCall /\ last.who = a
                     /\ last.res \notin ({"Ok"} \cup BeforeRateLimit)
                     /\ n > 0
                     /\ last.at < WindowOf(log, n, W) + W
                     /\ SwapsInWindow(log, n, W) >= mev[1].max_swaps_per_window )
                  => last.res = "RateLimitExceeded"

\* C8: in any rate_limit_window consecutive ticks a sender that is not
\* whitelisted completes at most max_swaps_per_window swaps, and a
\* whitelisted sender is never refused with RateLimitExceeded.
C8_SlidingWindow ==
    mev # None =>
        /\ \A a \in Senders \ whitelist, t \in 0..MaxTick :
              Cardinality({k \in 1..Len(SwapsOf(a)) :
                              /\ SwapsOf(a)[k].at >= t
                              /\ SwapsOf(a)[k].at < t + mev[1].rate_limit_window})
                  <= mev[1].max_swaps_per_window
        /\ (IsSwapCall /\ last.who \in whitelist) => last.res # "RateLimitExceeded"

PricedOps == SwapOps \cup {"get_quote"}
\* The input amount and the pools' behaviours of a quote or swap call.
AmountOf(call) == IF call.op = "get_quote" THEN call.amount_in ELSE call.p.amount_in
KindsOf(call) == IF call.op = "get_quote" THEN call.replies ELSE call.env.swap
\* The last hop's output of a quote or swap call.
FinalAmount(call) == AdapterOutput(KindsOf(call), 1, AmountOf(call))

\* C11 as stated: a successful quote or swap has
\* fee = floor(x * fee rate / 10000) and output = x - fee, for every final
\* adapter output x.
C11_FeeIsFloor ==
    (last.op \in PricedOps /\ last.res = "Ok") =>
        LET x == FinalAmount(last)
        IN /\ last.fee = (x * feeRate) \div 10000
           /\ last.out = x - last.fee

\* C11 amended: the fee is x * fee rate / 10000 rounded toward zero, which
\* is the floor for x >= 0 and the ceiling for x < 0; output = x - fee.
C11_FeeTruncates ==
    (last.op \in PricedOps /\ last.res = "Ok") =>
        LET x == FinalAmount(last)
        IN /\ x >= 0 => last.fee = (x * feeRate) \div 10000
           /\ x < 0 => last.fee = -(((-x) * feeRate) \div 10000)
           /\ last.out = x - last.fee
           /\ last.fee + last.out = x

\* The swap of 1000 through a 99 % pool at 30 bps: x = 990, fee 2, output 988.
C11_Witness ==
    /\ last.op = "execute_swap"
    /\ last.res = "Ok"
    /\ last.p.amount_in = 1000
    /\ feeRate = 30
    /\ FinalAmount(last) = 990
    /\ last.fee = 2
    /\ last.out = 988

\* C12: on a route of 1 to 4 hops with amount_in > 0, whose pools answer
\* swap as they answer adapter_quote, a successful execute_swap returns the
\* expected_output get_quote gives for that amount and route at the same
\* fee rate.
C12_SwapMatchesQuote ==
    (last.op = "execute_swap" /\ last.res = "Ok" /\ last.p.amount_in > 0) =>
        LET quote == get_quote(Ledger, last.p.amount_in, last.p.route, last.env.swap)
        IN /\ quote.res = "Ok"
           /\ quote.out = last.out
           /\ quote.fee = last.fee

\* A swap over MaxHops pools that each take their cut, at a nonzero fee.
C12_Witness ==
    /\ last.op = "execute_swap"
    /\ last.res = "Ok"
    /\ Len(last.p.route.hops) = MaxHops
    /\ last.fee > 0
    /\ last.out > 0
    /\ last.out < last.p.amount_in

\* Every stored entry but StorageKey::Paused.
StoredButPaused ==
    <<feeRate, pools, tokens, tokenCount, mev, whitelist, commitments, swapCount,
      windowStart, nonce, balances, adminVars>>
BlockedOps == SwapOps \cup {"commit_swap"}
\* What a swap or a quote would return on ledger S once unpaused.
Unpaused(S) == [S EXCEPT !.paused = FALSE]
SwapOutcome(S, t, c) ==
    LET r == execute_swap(Unpaused(S), t, Alice, c[1], c[2])
    IN <<r.res, r.out, r.fee>>
QuoteOutcome(S, c) ==
    LET r == get_quote(Unpaused(S), c[1].amount_in, c[1].route, c[2].swap)
    IN <<r.res, r.out, r.fee>>

\* C13: while paused, execute_swap, commit_swap and reveal_and_execute fail
\* with Paused and write nothing, while the admin's register_pool of a new
\* pool succeeds; pause and unpause write no stored entry but the paused
\* flag (each publishes its one event), so every swap and quote has the same
\* result, output and fee after them as before.
C13_PauseBlocksSwapsOnly ==
    [][ /\ (paused /\ last'.op \in BlockedOps)
            => (last'.res = "Paused" /\ UNCHANGED LedgerVars)
        /\ (paused /\ last'.op = "register_pool" /\ last'.who = Admin
                   /\ last'.pool \notin pools)
            => (last'.res = "Ok" /\ last'.pool \in pools' /\ paused')
        /\ (last'.op \in {"pause", "unpause"} /\ last'.res = "Ok" /\ last = NoCall)
            => /\ paused' = (last'.op = "pause")
               /\ UNCHANGED StoredButPaused
               /\ events' = Append(events, Event(IF last'.op = "pause" THEN "paused"
                                                 ELSE "unpaused", Router, now, << >>))
               /\ \A c \in PauseSwaps :
                     /\ SwapOutcome(Ledger', now', c) = SwapOutcome(Ledger, now, c)
                     /\ QuoteOutcome(Ledger', c) = QuoteOutcome(Ledger, c)
      ]_vars

\* A swap that goes through after a pause and an unpause: the log holds the
\* pause, the unpause and the swap, which pays out 495 - 1 as it does on a
\* contract that was never paused.
C13_Witness ==
    /\ last.op = "execute_swap"
    /\ last.res = "Ok"
    /\ last.out = 494
    /\ Len(events) >= 3
    /\ \E i \in 1..Len(events) - 2 :
          /\ events[i].kind = "paused"
          /\ events[i + 1].kind = "unpaused"

\* C14 as stated: a swap whose amount_in is zero or negative is rejected.
C14_NonPositiveAmountRejected ==
    (IsSwapCall /\ last.p.amount_in <= 0) => last.res # "Ok"

\* What hop i of a quote or swap call is fed, and what it hands back.
HopInput(call, i) == AdapterOutput(SubSeq(KindsOf(call), 1, i - 1), 1, AmountOf(call))
HopOutput(call, i) == AdapterOutput(SubSeq(KindsOf(call), 1, i), 1, AmountOf(call))
HopsOf(call) == 1..Len(KindsOf(call))
SomeHopMarksDown(call) == \E i \in HopsOf(call) : HopOutput(call, i) < HopInput(call, i)
SomeHopMarksUp(call) == \E i \in HopsOf(call) : HopOutput(call, i) > HopInput(call, i)
NoHopNegative(call) == \A i \in HopsOf(call) : HopOutput(call, i) >= 0

\* C15 as stated: with amount_in > 0, a swap at a nonzero fee rate, or
\* through some adapter that returns less than its input, pays out strictly
\* less than amount_in; it pays out >= 0 when no adapter output is negative.
C15_OutputBelowInput ==
    (last.op = "execute_swap" /\ last.res = "Ok" /\ last.p.amount_in > 0) =>
        /\ (feeRate # 0 \/ SomeHopMarksDown(last)) => last.out < last.p.amount_in
        /\ NoHopNegative(last) => last.out >= 0

\* C15 amended: the strict bound needs a nonzero fee charged (a nonzero rate
\* can truncate to a fee of 0) and no adapter returning more than its input.
C15_OutputBelowInputWhenCharged ==
    (last.op = "execute_swap" /\ last.res = "Ok" /\ last.p.amount_in > 0) =>
        /\ (~SomeHopMarksUp(last) /\ (last.fee # 0 \/ SomeHopMarksDown(last)))
               => last.out < last.p.amount_in
        /\ (~SomeHopMarksUp(last) /\ last.fee = 0 /\ ~SomeHopMarksDown(last))
               => last.out = last.p.amount_in
        /\ NoHopNegative(last) => last.out >= 0

\* A swap through pools that return their input in full, where only the
\* protocol fee brings the output below the input.
C15_Witness ==
    /\ last.op = "execute_swap"
    /\ last.res = "Ok"
    /\ last.p.amount_in = TestAmount
    /\ ~SomeHopMarksDown(last)
    /\ ~SomeHopMarksUp(last)
    /\ last.fee = 3
    /\ last.out = TestAmount - 3

\* How many times the log records proposal id as executed.
TimesExecuted(log, id) ==
    Cardinality({i \in 1..Len(log) : log[i].kind = "prop_exe" /\ log[i].data = <<id>>})
\* The step dispatches the action of proposal id: the proposal becomes
\* executed, the log records it, and the fee rate and the governance config
\* are what the action makes of them.
Dispatches(id) ==
    LET d == dispatch_action(Ledger, now, proposals'[id].action)
    IN /\ proposals'[id].executed
       /\ TimesExecuted(events', id) = TimesExecuted(events, id) + 1
       /\ d.res = "Ok"
       /\ feeRate' = d.st.feeRate
       /\ governance' = d.st.governance
NoDuplicate(seq) == \A i, j \in 1..Len(seq) : seq[i] = seq[j] => i = j
IsCall(op) == last = NoCall /\ last'.op = op
\* Proposal id is open to approval and execution.
Pending(id) == id \in DOMAIN proposals /\ ~proposals[id].executed

\* C16: under threshold k a successful propose dispatches the action at once
\* iff k = 1; a successful approve adds the signer to the approvals and
\* dispatches the action iff the approvals then number k or more; an approve
\* by an address already in the approvals is never Ok, is AlreadyApproved
\* when the proposal is pending, and adds nothing; execute of a pending
\* proposal with fewer than k approvals is ThresholdNotMet; and no step
\* marks a proposal executed by dispatch with fewer than k approvals.
C16_DispatchAtThreshold ==
    [][ LET k == governance[1].threshold
            id == last'.id
        IN /\ (IsCall("propose") /\ last'.res = "Ok")
               => /\ proposals'[id].approvals = <<last'.who>>
                  /\ IF k = 1 THEN Dispatches(id)
                     ELSE ~proposals'[id].executed /\ UNCHANGED <<feeRate, governance>>
           /\ (IsCall("approve_proposal") /\ last'.res = "Ok")
               => /\ proposals'[id].approvals = Append(proposals[id].approvals, last'.who)
                  /\ NoDuplicate(proposals'[id].approvals)
                  /\ IF Len(proposals'[id].approvals) >= k THEN Dispatches(id)
                     ELSE ~proposals'[id].executed /\ UNCHANGED <<feeRate, governance>>
           /\ (IsCall("approve_proposal") /\ Pending(id)
                                          /\ has_approved(proposals[id], last'.who))
               => /\ last'.res = "AlreadyApproved"
                  /\ UNCHANGED LedgerVars
           /\ (IsCall("execute_proposal") /\ Pending(id)
                                          /\ Len(proposals[id].approvals) < k)
               => /\ last'.res = "ThresholdNotMet"
                  /\ UNCHANGED LedgerVars
           /\ \A p \in DOMAIN proposals' :
                 TimesExecuted(events', p) > TimesExecuted(events, p)
                     => Len(proposals'[p].approvals) >= k
      ]_vars

\* The second approval of a 2-of-3 proposal: it is executed in that call and
\* the fee rate is the proposed one.
C16_Witness ==
    /\ last.op = "approve_proposal"
    /\ last.res = "Ok"
    /\ governance[1].threshold = 2
    /\ proposals[last.id].approvals = <<Alice, Bob>>
    /\ proposals[last.id].executed
    /\ proposals[last.id].action = SetFee
    /\ feeRate = 50

\* The errors only dispatch_action can give an approve or a propose call.
DispatchErrors ==
    {"InvalidAmount", "SignerLimitReached", "ThresholdNotMet", "SameWasmHash",
     "MigrationAlreadyDone"}

\* C17: when the approval that reaches the threshold (or, under threshold 1,
\* the propose) ends in an error of dispatch_action, the proposal is on
\* record with executed = true.
C17_FailedDispatchMarksExecuted ==
    /\ (last.op = "approve_proposal" /\ last.res \in DispatchErrors)
           => (last.id \in DOMAIN proposals /\ proposals[last.id].executed)
    /\ (last.op = "propose" /\ last.res \in DispatchErrors)
           => \E id \in DOMAIN proposals :
                  /\ proposals[id].action = last.action
                  /\ proposals[id].proposer = last.who
                  /\ proposals[id].executed

\* The log records a cancel of proposal id.
Cancelled(log, id) ==
    \E i \in 1..Len(log) : log[i].kind = "prop_can" /\ log[i].data = <<id>>

\* C18: a proposal with executed = true, set by execution or by cancel, is
\* never written again and never dispatched again: a signer's approve, any
\* execute and any cancel of it fail with ProposalAlreadyExecuted; the log
\* records at most one execution of a proposal and none of a cancelled one.
C18_ExecutedIsFinal ==
    [][ /\ \A id \in DOMAIN proposals :
              proposals[id].executed =>
                 /\ id \in DOMAIN proposals'
                 /\ proposals'[id] = proposals[id]
                 /\ TimesExecuted(events', id) = TimesExecuted(events, id)
                 /\ (IsCall("approve_proposal") /\ last'.id = id
                          /\ is_signer(governance[1], last'.who))
                        => last'.res = "ProposalAlreadyExecuted"
                 /\ ((IsCall("execute_proposal") \/ IsCall("cancel_proposal"))
                          /\ last'.id = id)
                        => last'.res = "ProposalAlreadyExecuted"
        /\ \A id \in DOMAIN proposals' :
              /\ TimesExecuted(events', id) <= 1
              /\ Cancelled(events', id)
                    => (proposals'[id].executed /\ TimesExecuted(events', id) = 0)
              /\ TimesExecuted(events', id) = 1 => proposals'[id].executed
      ]_vars

\* An execute of a cancelled fee change: it is refused and the fee rate is
\* still the initial one.
C18_Witness ==
    /\ last.op = "execute_proposal"
    /\ last.res = "ProposalAlreadyExecuted"
    /\ Cancelled(events, last.id)
    /\ proposals[last.id].action = SetFee
    /\ feeRate = TestFeeRate

\* C19: a proposal expires at created_at + proposal_ttl.  At a ledger past
\* that, no approval is added to it and it is not dispatched (cancel alone
\* still applies): a signer's approve and any execute of a pending proposal
\* fail with ProposalExpired and write nothing.  At a ledger up to and including it, a first approve
\* by a signer and an execute with enough approvals are accepted.
C19_NothingAfterExpiry ==
    [][ /\ \A id \in DOMAIN proposals' \ DOMAIN proposals :
              /\ proposals'[id].created_at = now
              /\ proposals'[id].expires_at = now + governance[1].proposal_ttl
        /\ \A id \in DOMAIN proposals :
              LET p == proposals[id]
                  mine == last'.id = id /\ ~p.executed
                  approving == IsCall("approve_proposal") /\ mine
                                   /\ is_signer(governance[1], last'.who)
                  executing == IsCall("execute_proposal") /\ mine
              IN /\ now > p.expires_at =>
                      /\ proposals'[id].approvals = p.approvals
                      /\ TimesExecuted(events', id) = TimesExecuted(events, id)
                      /\ (approving \/ executing)
                            => (last'.res = "ProposalExpired" /\ UNCHANGED LedgerVars)
                 /\ now <= p.expires_at =>
                      /\ (approving /\ ~has_approved(p, last'.who))
                            => (last'.res = "Ok"
                                /\ proposals'[id].approvals = Append(p.approvals, last'.who))
                      /\ (executing /\ Len(p.approvals) >= governance[1].threshold)
                            => (last'.res = "Ok" /\ proposals'[id].executed)
      ]_vars

\* An approval in the very ledger the proposal expires at, which executes it.
C19_Witness ==
    /\ last.op = "approve_proposal"
    /\ last.res = "Ok"
    /\ last.at = proposals[last.id].expires_at
    /\ last.at = proposals[last.id].created_at + GovTtl
    /\ proposals[last.id].executed
    /\ now = last.at

\* C20: in multi-sig mode 1 <= threshold <= len(signers) <= 10.
C20_ThresholdWithinSigners ==
    multisig =>
        /\ 1 <= governance[1].threshold
        /\ governance[1].threshold <= Len(governance[1].signers)
        /\ Len(governance[1].signers) <= MaxSigners

\* C21: the governance signer list never names the same address twice, neither
\* as installed by initialize or migrate_to_multisig nor after executed
\* AddSigner and RemoveSigner proposals.
C21_SignersUnique ==
    multisig => NoDuplicate(governance[1].signers)

\* The direct entry points of the single admin, and the entries they write.
DirectOps ==
    {"set_admin", "register_pool", "pause", "unpause", "add_token", "remove_token",
     "update_token", "add_tokens_batch"}
GuardedState == <<admin, pools, poolCount, paused, tokens, tokenCount, catIndex>>
\* The step executes proposal id, which holds the approvals the threshold asks.
ExecutesProposal(id) ==
    /\ id \in DOMAIN proposals'
    /\ proposals'[id].executed
    /\ TimesExecuted(events', id) = TimesExecuted(events, id) + 1
    /\ Len(proposals'[id].approvals) >= governance[1].threshold
DirectCallRefused ==
    (last = NoCall /\ last'.op \in DirectOps)
        => (last'.res = "UseGovernance" /\ UNCHANGED LedgerVars)
\* The step is the stored guardian's guardian_pause.
GuardianPauses ==
    /\ IsCall("guardian_pause")
    /\ last'.res = "Ok"
    /\ guardian = Some(last'.who)
    /\ paused'
    /\ UNCHANGED <<admin, pools, poolCount, tokens, tokenCount, catIndex>>

\* C22: in multi-sig mode set_admin, register_pool, pause, unpause, add_token,
\* remove_token, update_token and add_tokens_batch all fail with UseGovernance
\* and change no state; the admin, the pools, the paused flag and the token
\* allowlist change only in a step that executes a proposal.
C22_OnlyProposalsChangeGuardedState ==
    [][ multisig =>
          /\ DirectCallRefused
          /\ (GuardedState' # GuardedState)
                 => \E id \in 1..MaxProposals : ExecutesProposal(id) ]_vars

\* C22 as amended: the same, except that the paused flag is also set by the
\* guardian's guardian_pause, which changes nothing else of that state.
C22_ProposalsOrGuardianChangeGuardedState ==
    [][ multisig =>
          /\ DirectCallRefused
          /\ (GuardedState' # GuardedState)
                 => \/ \E id \in 1..MaxProposals : ExecutesProposal(id)
                    \/ GuardianPauses ]_vars

\* The admin's update_token was refused in multi-sig mode, after a proposal
\* paused the contract.
C22_Witness ==
    /\ multisig
    /\ last.op = "update_token"
    /\ last.who = Admin
    /\ last.res = "UseGovernance"
    /\ paused
    /\ \E id \in DOMAIN proposals :
           proposals[id].executed /\ proposals[id].action.kind = "Pause"

\* C23: IsMultiSig, once true, is never reset, and migrate_to_multisig on a
\* contract in multi-sig mode fails and leaves the governance config and the
\* guardian as they were.
C23_MultisigIsOneWay ==
    [][ multisig =>
          /\ multisig'
          /\ IsCall("migrate_to_multisig")
                 => /\ last'.res \in {"AlreadyInitialized", "Unauthorized"}
                    /\ (admin = Some(last'.who)) => (last'.res = "AlreadyInitialized")
                    /\ governance' = governance
                    /\ guardian' = guardian ]_vars

\* The admin asked for signers [Alice, Carol] with guardian Bob on a contract
\* that Alice and Bob govern with Carol as guardian, and was refused.
C23_Witness ==
    /\ multisig
    /\ last.op = "migrate_to_multisig"
    /\ last.who = Admin
    /\ last.signers = <<Alice, Carol>>
    /\ last.res = "AlreadyInitialized"
    /\ governance[1].signers = <<Alice, Bob>>
    /\ guardian = Some(Carol)

\* C24: guardian_pause by the stored guardian sets paused, by any other
\* caller it is Unauthorized and writes nothing, and it never clears paused;
\* in multi-sig mode paused is cleared only by a step that executes an Unpause
\* proposal holding at least threshold approvals.
C24_GuardianOnlyPauses ==
    [][ /\ IsCall("guardian_pause")
            => /\ (paused => paused')
               /\ IF guardian = Some(last'.who)
                  THEN last'.res = "Ok" /\ paused'
                  ELSE last'.res = "Unauthorized" /\ UNCHANGED LedgerVars
        /\ (multisig /\ paused /\ ~paused')
            => \E id \in 1..MaxProposals :
                   /\ ExecutesProposal(id)
                   /\ proposals'[id].action.kind = "Unpause" ]_vars

\* The guardian paused the contract, and Bob's approval then executed the
\* Unpause proposal.
C24_Witness ==
    /\ multisig
    /\ ~paused
    /\ \E i \in 1..Len(events) :
           events[i].kind = "grd_pse" /\ guardian = Some(events[i].who)
    /\ last.op = "approve_proposal"
    /\ last.res = "Ok"
    /\ proposals[last.id].action.kind = "Unpause"
    /\ proposals[last.id].executed

\* The arrival orders of the approve calls of the signers in A.
Orders(A) ==
    { o \in [1..Cardinality(A) -> A] : \A i, j \in DOMAIN o : o[i] = o[j] => i = j }
\* The ledger after the signers of `order` have called approve_proposal for
\* proposal id one after the other from entry i on; a call that fails is
\* rolled back.
RECURSIVE ApproveInOrder(_, _, _, _, _)
ApproveInOrder(S, t, order, id, i) ==
    IF i > Len(order) THEN S
    ELSE ApproveInOrder(Invoke(S, router_approve_proposal(S, t, order[i], id)),
                        t, order, id, i + 1)
\* What the approvals leave behind, apart from the log and from who approved.
OutcomeOf(S, id) == [S EXCEPT !.events = << >>, !.proposals[id].approvals = << >>]
SignerSet == {governance[1].signers[i] : i \in 1..Len(governance[1].signers)}

\* C25: for a pending proposal short of its threshold k and any set of at least
\* k distinct signers who all call approve before the expiry, every arrival
\* order leaves the same configuration and executed flag, and the action is
\* dispatched exactly once.
C25_ApprovalOrderIrrelevant ==
    \A id \in DOMAIN proposals :
        (/\ multisig /\ last = NoCall
         /\ Pending(id) /\ now <= proposals[id].expires_at
         /\ Len(proposals[id].approvals) < governance[1].threshold)
            => \A A \in SUBSET SignerSet :
                   Cardinality(A) >= governance[1].threshold
                       => \A o1, o2 \in Orders(A) :
                              LET S1 == ApproveInOrder(Ledger, now, o1, id, 1)
                                  S2 == ApproveInOrder(Ledger, now, o2, id, 1)
                              IN /\ OutcomeOf(S1, id) = OutcomeOf(S2, id)
                                 /\ S1.proposals[id].executed
                                 /\ TimesExecuted(S1.events, id)
                                        = TimesExecuted(events, id) + 1

\* C26: a successful propose_upgrade stores execute_after = max(requested
\* execute_after, proposed_at + MIN_DELAY_LEDGERS) with proposed_at the
\* current ledger; execute_upgrade at a ledger before the stored execute_after
\* is UpgradeLocked and leaves the pending upgrade and the version as they
\* were; and a successful execute_upgrade comes no earlier than
\* MIN_DELAY_LEDGERS after the proposal.
C26_UpgradeWaitsMinDelay ==
    [][ /\ (IsCall("propose_upgrade") /\ last'.res = "Ok")
            => /\ pendingUpgrade' # None
               /\ pendingUpgrade'[1].proposed_at = now
               /\ pendingUpgrade'[1].new_wasm_hash = last'.hash
               /\ pendingUpgrade'[1].execute_after
                      = Max(last'.execute_after, now + MinDelayLedgers)
        /\ (/\ IsCall("execute_upgrade")
            /\ pendingUpgrade # None
            /\ now < pendingUpgrade[1].execute_after)
            => /\ last'.res = "UpgradeLocked"
               /\ UNCHANGED LedgerVars
        /\ (IsCall("execute_upgrade") /\ last'.res = "Ok")
            => /\ now >= pendingUpgrade[1].proposed_at + MinDelayLedgers
               /\ now >= pendingUpgrade[1].execute_after ]_vars

\* The upgrade was proposed at ledger 0 for ledger MIN_DELAY_LEDGERS + 1, and
\* execute_upgrade at ledger MIN_DELAY_LEDGERS was refused.
C26_Witness ==
    /\ last.op = "execute_upgrade"
    /\ last.res = "UpgradeLocked"
    /\ last.at = MinDelayLedgers
    /\ pendingUpgrade # None
    /\ pendingUpgrade[1].proposed_at = 0
    /\ pendingUpgrade[1].execute_after = MinDelayLedgers + 1

\* The hash of the code the contract runs, as get_version reports it.
CodeHash(v) == get_version([version |-> v]).wasm_hash

\* C27: in multi-sig mode propose_upgrade by the admin fails with
\* UseGovernance and writes nothing, the code hash changes only in a step that
\* executes an approved Upgrade proposal, and no execute_upgrade changes the
\* version.
C27_TimeLockClosedUnderMultisig ==
    [][ multisig =>
          /\ (IsCall("propose_upgrade") /\ admin = Some(last'.who))
                 => (last'.res = "UseGovernance" /\ UNCHANGED LedgerVars)
          /\ (CodeHash(version') # CodeHash(version))
                 => \E id \in 1..MaxProposals :
                        /\ ExecutesProposal(id)
                        /\ proposals'[id].action.kind = "Upgrade"
          /\ IsCall("execute_upgrade") => version' = version ]_vars

\* The propose_upgrade call of this step passes every check that comes before
\* the one for a pending upgrade.
ProposalInOrder ==
    /\ admin = Some(last'.who)
    /\ ~multisig
    /\ ~paused
    /\ last'.hash # CodeHash(version)
    /\ last'.hash # ZeroHash

\* C28: propose_upgrade while an upgrade is pending never succeeds, is
\* UpgradePending when nothing else is wrong with the call, and leaves the
\* pending record as it was; a successful execute_upgrade or cancel_upgrade
\* clears the record, and with no record an orderly propose_upgrade succeeds;
\* execute_upgrade and cancel_upgrade with none pending are NoUpgradePending.
C28_OnePendingUpgrade ==
    [][ /\ (IsCall("propose_upgrade") /\ pendingUpgrade # None)
            => /\ last'.res # "Ok"
               /\ ProposalInOrder => last'.res = "UpgradePending"
               /\ UNCHANGED LedgerVars
        /\ (IsCall("propose_upgrade") /\ pendingUpgrade = None /\ ProposalInOrder)
            => (last'.res = "Ok" /\ pendingUpgrade' # None)
        /\ ((IsCall("execute_upgrade") \/ IsCall("cancel_upgrade")) /\ last'.res = "Ok")
            => (pendingUpgrade # None /\ pendingUpgrade' = None)
        /\ ((IsCall("execute_upgrade") \/ IsCall("cancel_upgrade")) /\ pendingUpgrade = None)
            => (last'.res = "NoUpgradePending" /\ UNCHANGED LedgerVars) ]_vars

\* A second upgrade was proposed after the first was executed.
C28_Witness ==
    /\ last.op = "propose_upgrade"
    /\ last.res = "Ok"
    /\ pendingUpgrade # None
    /\ get_version(Ledger).patch = 1
    /\ pendingUpgrade[1].proposed_at > get_version(Ledger).upgraded_at

Triple(v) == <<v.major, v.minor, v.patch>>
\* How many times the log records the migration of triple m as completed.
TimesMigrated(log, m) ==
    Cardinality({i \in 1..Len(log) : log[i].kind = "mig_done" /\ log[i].data = m})
\* Every migrated triple was migrated once, and migrate for it is refused
\* and publishes nothing.
MigratedOnce ==
    \A m \in migrations :
        LET r == migrate(Ledger, now, [major |-> m[1], minor |-> m[2], patch |-> m[3],
                                       wasm_hash |-> ZeroHash, upgraded_at |-> now])
        IN /\ TimesMigrated(events, m) = 1
           /\ r.res = "MigrationAlreadyDone"
           /\ r.st.events = events
           /\ Invoke(Ledger, r) = Ledger
\* A step that replaces the code raises patch by one and migrates the new
\* triple, which was not migrated before; no other step migrates.
ReplacementMigrates ==
    LET old == get_version(Ledger)
        new == get_version([version |-> version'])
    IN /\ (version' # version)
           => /\ Triple(new) = <<old.major, old.minor, old.patch + 1>>
              /\ Triple(new) \notin migrations
              /\ migrations' = migrations \cup {Triple(new)}
              /\ TimesMigrated(events', Triple(new)) = 1
       /\ (migrations' # migrations) => (version' # version)

\* C29: the migration runs exactly once per (major, minor, patch): every
\* completed code replacement raises patch by exactly 1 and marks that triple
\* as migrated, and migrate for a triple already migrated fails with
\* MigrationAlreadyDone and publishes no mig_done event.
C29_MigrationOncePerVersion ==
    []MigratedOnce /\ [][ReplacementMigrates]_vars

\* Two Upgrade proposals were dispatched: 1.0.1 and 1.0.2 are migrated.
C29_Witness ==
    /\ last.op = "propose"
    /\ last.res = "Ok"
    /\ get_version(Ledger).patch = 2
    /\ migrations = {<<1, 0, 1>>, <<1, 0, 2>>}

\* C30: the version history is append-only: an entry recorded under an
\* activation ledger is never changed or replaced by a later upgrade, so every
\* version that was once current stays in the history.
C30_VersionHistoryAppendOnly ==
    [][ \A ledger \in DOMAIN versionHistory :
            get_version_at(Ledger, ledger)
                = get_version_at([versionHistory |-> versionHistory'], ledger) ]_vars

\* C31: the token count equals the number of allowlisted assets, and every
\* allowlisted asset has its one TokenInfo stored under the key equal to the
\* info's own asset field.
C31_TokenCountMatchesAllowlist ==
    /\ tokenCount = Cardinality({a \in TokenAssets : is_token_allowed(Ledger, a)})
    /\ \A a \in DOMAIN tokens : tokens[a].asset = a

\* C32: get_tokens_by_category(c) returns exactly the allowlisted assets whose
\* stored TokenInfo has category c, each of them once.
C32_CategoryListingExact ==
    \A c \in TokenCategory :
        LET listing == get_tokens_by_category(Ledger, c)
        IN /\ NoDuplicate(listing)
           /\ {listing[i] : i \in 1..Len(listing)}
                  = {a \in DOMAIN tokens : tokens[a].category = c}

\* The step is the call that brings a pending, unexpired SetFeeRate(rate)
\* proposal to its threshold: a propose under threshold 1, the approval that
\* completes the count, or an execute of a proposal that has the count.
CompletesFeeChange(rate) ==
    LET id == last'.id
        open == /\ Pending(id)
                /\ now <= proposals[id].expires_at
                /\ proposals[id].action = ProposalAction("SetFeeRate", rate)
    IN /\ governance # None
       /\ \/ /\ IsCall("propose")
             /\ is_signer(governance[1], last'.who)
             /\ governance[1].threshold = 1
             /\ last'.action = ProposalAction("SetFeeRate", rate)
          \/ /\ IsCall("approve_proposal")
             /\ is_signer(governance[1], last'.who)
             /\ open
             /\ ~has_approved(proposals[id], last'.who)
             /\ Len(proposals[id].approvals) + 1 >= governance[1].threshold
          \/ /\ IsCall("execute_proposal")
             /\ open
             /\ Len(proposals[id].approvals) >= governance[1].threshold

\* C33: the stored fee rate is at most 1000 in every reachable state; the
\* first initialize with fee_rate > 1000, and the call that would dispatch a
\* SetFeeRate proposal with rate > 1000, fail with InvalidAmount and leave the
\* ledger as it was; with 1000 both succeed and store 1000.
C33_FeeRateAtMostMax ==
    /\ [](feeRate <= MaxFeeRate)
    /\ [][ /\ (IsCall("initialize") /\ admin = None /\ last'.fee_rate > MaxFeeRate)
               => (last'.res = "InvalidAmount" /\ UNCHANGED LedgerVars)
           /\ (IsCall("initialize") /\ admin = None /\ last'.fee_rate = MaxFeeRate)
               => (last'.res = "Ok" /\ feeRate' = MaxFeeRate)
           /\ \A rate \in BoundaryRates :
                 CompletesFeeChange(rate)
                     => IF rate > MaxFeeRate
                        THEN last'.res = "InvalidAmount" /\ UNCHANGED LedgerVars
                        ELSE last'.res = "Ok" /\ feeRate' = rate
         ]_vars

\* A contract initialized with the rate 1000 has refused the approval that
\* would have dispatched SetFeeRate(1001).
C33_Witness ==
    /\ last # NoCall
    /\ last.op = "approve_proposal"
    /\ last.res = "InvalidAmount"
    /\ proposals[last.id].action = ProposalAction("SetFeeRate", MaxFeeRate + 1)
    /\ feeRate = MaxFeeRate

\* The abort conditions of execute_swap_internal in the order the
\* specification lists them, each with the error it stands for.  The bounds
\* on the output are conditions of a call whose hops all answered.
AbortConditions(S, t, sender, p, env) ==
    LET hops == p.route.hops
        n == Len(hops)
        run == swap_hops(S, hops, env.swap, 1, p.amount_in)
        done == run.res = "Ok"
        out == run.amount - fee_amount(run.amount, S.feeRate)
        limited == /\ S.mev # None
                   /\ sender \notin S.whitelist
                   /\ S.windowStart[sender] > 0
                   /\ t < S.windowStart[sender] + S.mev[1].rate_limit_window
                   /\ S.swapCount[sender] >= S.mev[1].max_swaps_per_window
    IN << <<"DeadlineExceeded", t > p.deadline>>,
          <<"ExecutionTooEarly", t < p.not_before>>,
          <<"InvalidRoute", n = 0 \/ n > MaxHops>>,
          <<"RateLimitExceeded", limited>>,
          <<run.res, ~done>>,
          <<"PriceImpactTooHigh",
            done /\ p.max_price_impact_bps > 0 /\ ImpactPerHop * n > p.max_price_impact_bps>>,
          <<"SpreadTooHigh",
            /\ done
            /\ p.max_execution_spread_bps > 0
            /\ p.route.estimated_output > 0
            /\ execution_spread(out, p.route.estimated_output) > p.max_execution_spread_bps>>,
          <<"SlippageExceeded", done /\ out < p.min_amount_out>>,
          <<"ReserveManipulationDetected",
            done /\ \E i \in 1..n :
                        reserves_manipulated(snapshot_reserves(env, n)[i], env.post[i])>> >>
HoldingAborts(conds) == {i \in 1..Len(conds) : conds[i][2]}
FirstAbort(conds) ==
    IF HoldingAborts(conds) = {} THEN "Ok"
    ELSE conds[CHOOSE i \in HoldingAborts(conds) :
                   \A j \in HoldingAborts(conds) : i <= j][1]

\* C34: a call that reaches the shared execution routine returns the first
\* error, in the listed order, whose condition holds for it (the failing hop
\* being the first one that fails), and Ok when none holds.
C34_FirstAbortInOrder ==
    [][ (IsCall("execute_swap") /\ ~paused /\ ~commitment_required(Ledger, last'.p))
            => last'.res = FirstAbort(AbortConditions(Ledger, now, last'.who,
                                                      last'.p, last'.env))
      ]_vars

\* A rate-limited call whose route runs through an unregistered pool, whose
\* pool reports reserves that both rose and whose minimum output is out of
\* reach was refused as rate-limited.
C34_Witness ==
    /\ last # NoCall
    /\ last.op = "execute_swap"
    /\ last.res = "RateLimitExceeded"
    /\ last.p.route.hops[1].pool = Pool2
    /\ last.p.min_amount_out = TestAmount
    /\ last.env.post[1] = Some(<<6, 6>>)

\* C35: get_pool_count equals the number of registered pools after any
\* sequence of register_pool calls and executed RegisterPool and
\* DeregisterPool proposals.
C35_PoolCountMatchesRegistry == poolCount = Cardinality(pools)

\* C36: while an upgrade is pending, a cancel_upgrade by the address that is
\* admin at that moment succeeds and clears the pending record, whoever
\* proposed the upgrade.
C36_CurrentAdminCancels ==
    [][ (IsCall("cancel_upgrade") /\ pendingUpgrade # None /\ admin = Some(last'.who))
            => (last'.res = "Ok" /\ pendingUpgrade' = None)
      ]_vars

\* C37: a commit_swap of hash h by another sender leaves a live commitment
\* stored under h as it was, so that its owner's reveal still passes the
\* commitment check.
C37_CommitmentNotReplaced ==
    [][ \A h \in DOMAIN commitments :
           (/\ IsCall("commit_swap")
            /\ last'.hash = h
            /\ last'.who # commitments[h].sender
            /\ now <= commitments[h].expires_at)
               => /\ h \in DOMAIN commitments'
                  /\ commitments'[h] = commitments[h]
                  /\ verify_commitment(Ledger', now, commitments[h].sender, h) = "Ok"
      ]_vars

\* C38: whenever a step dispatches a proposal's action, at least threshold
\* of the addresses in its approvals are signers when the step is taken.
C38_DispatchBackedBySigners ==
    [][ \A id \in DOMAIN proposals' :
           TimesExecuted(events', id) > TimesExecuted(events, id)
               => Cardinality({ proposals'[id].approvals[i] :
                                  i \in { j \in 1..Len(proposals'[id].approvals) :
                                            is_signer(governance[1],
                                                      proposals'[id].approvals[j]) } })
                      >= governance[1].threshold
      ]_vars

\* C39: in MultiSig mode a configure_mev or set_whitelist call leaves the
\* MevConfig and the rate-limit whitelist as they were.
C39_MevSettingsNeedGovernance ==
    [][ (multisig /\ (IsCall("configure_mev") \/ IsCall("set_whitelist")))
            => UNCHANGED <<mev, whitelist>>
      ]_vars

\* C40: in every multi-sig state the signer list names at least threshold
\* distinct addresses, so that a new proposal can still collect threshold
\* approvals.
C40_EnoughDistinctSigners ==
    multisig =>
        Cardinality({ governance[1].signers[i] : i \in 1..Len(governance[1].signers) })
            >= governance[1].threshold

SameDirection(pre, post) ==
    \/ (post[1] > pre[1] /\ post[2] > pre[2])
    \/ (post[1] < pre[1] /\ post[2] < pre[2])

\* C9: whenever a hop's reserves could be read before the trade and the
\* reserves read after it are both greater or both smaller, the swap does
\* not succeed, and fails with ReserveManipulationDetected once it has
\* passed the caller's bounds; only a failed first read exempts a hop.
C9_ManipulationAlwaysDetected ==
    (IsSwapCall /\ Len(last.p.route.hops) \in 1..MaxHops) =>
        \A i \in 1..Len(last.p.route.hops) :
            ( /\ last.env.pre[i] # None
              /\ last.env.post[i] # None
              /\ SameDirection(last.env.pre[i][1], last.env.post[i][1]) )
            => /\ last.res # "Ok"
               /\ last.res \notin (BeforeGuards \cup GuardErrors)
                      => last.res = "ReserveManipulationDetected"

\* C10: a swap passes the time gate exactly when not_before <= now <=
\* deadline; past the deadline it fails with DeadlineExceeded, before
\* not_before with ExecutionTooEarly.
C10_TimeGate ==
    (IsSwapCall /\ last.res \notin BeforeEngine) =>
        /\ last.res = "DeadlineExceeded" <=> last.at > last.p.deadline
        /\ last.res = "ExecutionTooEarly" <=>
               (last.at <= last.p.deadline /\ last.at < last.p.not_before)
        /\ last.res = "Ok" =>
               (last.p.not_before <= last.at /\ last.at <= last.p.deadline)

\* A swap that succeeds at the tick that is both its deadline and its
\* not_before.
C10_Witness ==
    /\ IsSwapCall
    /\ last.res = "Ok"
    /\ last.at > 0
    /\ last.p.deadline = last.at
    /\ last.p.not_before = last.at

====
